---- MODULE Spec2Model ----
(***************************************************************************)
(* Teller: capture reconciliation (OpencodeWatcher) and the adaptive       *)
(* analysis loop (TellerAgent over Memory).                                *)
(*                                                                         *)
(* Four specifications share the module:                                   *)
(*   Spec         the analysis engine: event appends, the warm-up and      *)
(*                periodic timers, analyzeNow(), and each cycle's          *)
(*                suspension points (provider call, pattern detection,     *)
(*                fire-and-forget lesson extraction).                      *)
(*   SpecWatcher  the reconciler: the startup snapshot and live-watch      *)
(*                notifications for envelope (message) and content (part)  *)
(*                files.                                                   *)
(*   SpecEngine   the pattern engine: cycles forced one after the other,   *)
(*                over detection responses that may repeat a code.         *)
(*   SpecFunctions the depth selection, the tracker, the detection parser, *)
(*                the formatter and the lesson upsert, each applied to     *)
(*                arguments drawn from bounded sets.                       *)
(***************************************************************************)
EXTENDS Integers, Sequences, FiniteSets, TLC

\* ------------------------------------------------------------------ bounds
\* Event timestamps are drawn from 1..MaxTs.
MaxTs == 3
\* Events appended to the store during the session.
MaxEvents == 2
\* analyze() invocations (warm-up, periodic ticks and analyzeNow together).
MaxCycles == 2
\* Content (part) files of the opencode storage.
NumParts == 3
\* MAX_SEEN_SIZE of OpencodeWatcher: 5000 in the source (part_013:305), scaled
\* down so that the eviction of cleanupSeenSets happens within NumParts files.
MAX_SEEN_SIZE == 2
\* "event" notifications of the watcher.
MaxEmitted == 2
\* patternCounter values 1..MaxCounter are handed to the depth selection.
MaxCounter == 10
\* Batch sizes 1..MaxBatch are handed to the depth selection.
MaxBatch == 16
\* A tracker count is drawn from 0..MaxCount.
MaxCount == 5
\* A detection response holds at most MaxItems elements.
MaxItems == 2
\* The formatter is handed at most MaxLabels labels.
MaxLabels == 2
\* A lesson content is upserted at most MaxUpserts times.
MaxUpserts == 3
\* Watch notifications followed in the reading of malformed files.
MaxHandled == 4
\* Capture notifications on the bus of index.ts.
MaxBus == 3
\* Lines appended to the history file and polls of the terminal hook.
MaxLines == 3
MaxPolls == 3
MaxStored == 1
MaxObsRows == 3
MaxObsTs == 2
MaxSideWrites == 1
MaxStarts == 2

VARIABLES
  \* ---- Memory (src/src/agent/memory.ts)
  events,            \* events table: sequence of [session, ts]; row id = index
  observations,      \* observations table of the current session
  occurrences,       \* pattern_occurrences table: number of copies of each row
  lessons,           \* lessons table: content -> [category, confidence in tenths] or NoLesson
  \* ---- TellerAgent (src/src/agent/teller.ts)
  lastAnalysisTime,  \* the cursor
  patternCounter,    \* every-5th-cycle depth counter
  counts,            \* PatternTracker.counts
  cycles,            \* one record per analyze() invocation, in start order
  notified,          \* onObservation notifications, in order
  lessonJobs,        \* fire-and-forget extractAndStore calls awaiting the provider
  started,           \* TRUE once start() has been called
  pendingWarmups,    \* setTimeout(…, 15_000) callbacks not yet fired
  liveIntervals,     \* setInterval timers that exist and were never cleared
  analysisInterval,  \* TRUE iff this.analysisInterval holds a timer handle
  \* ---- OpencodeWatcher (src/unnamed/part_013)
  watcher,           \* the OpencodeWatcher object and what it has emitted:
                     \*   seenMessages   Set<string> in insertion order
                     \*   seenParts      Set<string> in insertion order
                     \*   messageBuffer  Map msgId -> metadata, in insertion order
                     \*   emitCount      "event" notifications so far, per part file
                     \*   lastEmitted    the latest "event" notification
                     \*   evicted        part files cleanupSeenSets dropped from
                     \*                  seenParts and not added back since
  wphase,            \* "idle", "watching" (start() done), "nostorage"
  startupDir,        \* the storage as start() will find it; emptied by start()
  staleAtStart,      \* part files start() found with an mtime outside the window
  \* ---- one invocation of an operation under SpecFunctions
  call,              \* [fn, args, done, result]
  \* ---- the Memory object and its database file, under SpecStore and SpecJournal
  db,                \* see NoDb, Files and Construct
  \* ---- TerminalHook (src/src/capture/terminal-hook.ts), under SpecTerminal
  hook,              \* the history file and the TerminalHook object, see HookInit
  \* ---- the wiring of index.ts, under SpecWiring
  wiring             \* the module body of index.ts, see WiringInit

agentVars == <<events, observations, occurrences, lessons, lastAnalysisTime,
               patternCounter, counts, cycles, notified, lessonJobs, started,
               pendingWarmups, liveIntervals, analysisInterval>>
watcherVars == <<watcher, wphase, startupDir, staleAtStart, hook, wiring>>
vars == <<agentVars, watcherVars, call, db>>

\* ------------------------------------------------------------ Memory: events
CurSession == "cur"
OldSession == "old"
Timestamps == 1..MaxTs

\* Rows of the current session appended so far.
SessionRows == {i \in 1..Len(events) : events[i].session = CurSession}

\* ORDER BY timestamp ASC (ties in row order).
RECURSIVE OrderByTimestamp(_)
OrderByTimestamp(S) ==
  IF S = {} THEN <<>>
  ELSE LET m == CHOOSE i \in S : \A j \in S :
                  \/ events[i].ts < events[j].ts
                  \/ (events[i].ts = events[j].ts /\ i <= j)
       IN <<m>> \o OrderByTimestamp(S \ {m})

\* A plausible slip: the query without its ORDER BY, rows in insertion order.
GetRecentEventsUnordered(sinceMs) ==
  LET S == {i \in 1..Len(events) :
              events[i].session = CurSession /\ events[i].ts > sinceMs}
  IN SelectSeq([i \in 1..Len(events) |-> i], LAMBDA i : i \in S)

\* SELECT * FROM events WHERE session_id = ? AND timestamp > ? ORDER BY timestamp ASC
GetRecentEvents(sinceMs) ==
  OrderByTimestamp({i \in 1..Len(events) :
                      events[i].session = CurSession /\ events[i].ts > sinceMs})

Range(s) == {s[k] : k \in 1..Len(s)}

\* A plausible slip: Math.min in place of Math.max.
MinTimestamp(batch) ==
  CHOOSE t \in {events[i].ts : i \in Range(batch)} :
    \A i \in Range(batch) : t <= events[i].ts

\* Math.max(...recentEvents.map(e => e.timestamp))
MaxTimestamp(batch) ==
  CHOOSE t \in {events[i].ts : i \in Range(batch)} :
    \A i \in Range(batch) : events[i].ts <= t

\* --------------------------------------------------------- TellerAgent.analyze
\* A plausible slip: re-read from the cursor itself minus one.
AnalysisThresholdBack(last) == IF last = 0 THEN 0 ELSE last - 1

\* const analysisThreshold = this.lastAnalysisTime === 0 ? 0 : this.lastAnalysisTime + 1
AnalysisThreshold(last) == IF last = 0 THEN 0 ELSE last + 1

\* The configured default depth (constructor: opts.analysisDepth || "standard").
AnalysisDepth == "standard"

\* Depth handed to the provider, in the order the code applies its overrides.
CurrentDepth(cfg, counter, n) ==
  LET d1 == IF counter % 5 = 0 THEN "deep" ELSE cfg
  IN IF n > 15 THEN "deep" ELSE IF n < 3 THEN "quick" ELSE d1

\* A cycle that has not started its asynchronous part.
NewCycle ==
  [pc |-> "done", batch |-> <<>>, depth |-> "none", analysisCalls |-> 0,
   detectCalls |-> 0, text |-> "none", errs |-> 0, failed |-> "none",
   detectFailed |-> FALSE, outcome |-> "pending", wrote |-> FALSE, dets |-> <<>>]

\* catch (err) { this.onError(...) }: the sink is called once, analyze() resolves.
Caught(c, op) ==
  [c EXCEPT !.pc = "done", !.failed = op, !.errs = @ + 1, !.outcome = "resolved"]

\* analyze() returns without an exception.
Resolved(c) == [c EXCEPT !.pc = "done", !.outcome = "resolved"]

\* Operations of the synchronous prefix that may throw.
PrefixFailures == {"none", "getRecentEvents", "context"}

\* A plausible slip: the counter is bumped before the empty-batch return.
CounterAfterEmptyBumped(counter) == counter + 1

\* The depth counter after a cycle that found no new event (early return).
CounterAfterEmpty(counter) == counter

\* A plausible slip: the cursor is assigned after the context reads.
AnalyzeBeginLateCommit ==
  /\ Len(cycles) < MaxCycles
  /\ \E fail \in PrefixFailures :
       IF fail = "getRecentEvents"
       THEN /\ cycles' = Append(cycles, Caught(NewCycle, fail))
            /\ UNCHANGED <<lastAnalysisTime, patternCounter>>
       ELSE LET batch == GetRecentEvents(AnalysisThreshold(lastAnalysisTime))
            IN IF batch = <<>>
               THEN /\ fail = "none"
                    /\ cycles' = Append(cycles, Resolved(NewCycle))
                    /\ patternCounter' = CounterAfterEmpty(patternCounter)
                    /\ UNCHANGED lastAnalysisTime
               ELSE /\ lastAnalysisTime' = IF fail = "context" THEN lastAnalysisTime
                                            ELSE MaxTimestamp(batch)
                    /\ IF fail = "context"
                       THEN /\ cycles' = Append(cycles,
                                    Caught([NewCycle EXCEPT !.batch = batch], fail))
                            /\ UNCHANGED patternCounter
                       ELSE /\ patternCounter' = patternCounter + 1
                            /\ cycles' = Append(cycles,
                                 [NewCycle EXCEPT
                                    !.pc = "analyzing",
                                    !.batch = batch,
                                    !.depth = CurrentDepth(AnalysisDepth,
                                                 patternCounter + 1, Len(batch)),
                                    !.analysisCalls = 1])
  /\ UNCHANGED <<events, observations, occurrences, lessons, counts, notified,
                 lessonJobs, started, analysisInterval>>

\* The synchronous prefix of analyze(): lines 90-129 up to the first await.
AnalyzeBegin ==
  /\ Len(cycles) < MaxCycles
  /\ \E fail \in PrefixFailures :
       IF fail = "getRecentEvents"
       THEN /\ cycles' = Append(cycles, Caught(NewCycle, fail))
            /\ UNCHANGED <<lastAnalysisTime, patternCounter>>
       ELSE LET batch == GetRecentEvents(AnalysisThreshold(lastAnalysisTime))
            IN IF batch = <<>>
               THEN /\ fail = "none"
                    /\ cycles' = Append(cycles, Resolved(NewCycle))
                    /\ patternCounter' = CounterAfterEmpty(patternCounter)
                    /\ UNCHANGED lastAnalysisTime
               ELSE /\ lastAnalysisTime' = MaxTimestamp(batch)
                    /\ IF fail = "context"
                       THEN /\ cycles' = Append(cycles,
                                    Caught([NewCycle EXCEPT !.batch = batch], fail))
                            /\ UNCHANGED patternCounter
                       ELSE /\ patternCounter' = patternCounter + 1
                            /\ cycles' = Append(cycles,
                                 [NewCycle EXCEPT
                                    !.pc = "analyzing",
                                    !.batch = batch,
                                    !.depth = CurrentDepth(AnalysisDepth,
                                                 patternCounter + 1, Len(batch)),
                                    !.analysisCalls = 1])
  /\ UNCHANGED <<events, observations, occurrences, lessons, counts, notified,
                 lessonJobs, started, analysisInterval>>

\* ------------------------------------------------------------- Pattern engine
\* Two of the twelve catalog codes: one behavioral, one tactical.
Codes == {"UI-TRIAL", "BLIND-RETRY"}

\* PATTERN_DEFINITIONS[code].category for the twelve catalog codes.
BehavioralCodes ==
  {"UI-TRIAL", "REPEAT-FAILURE", "TECH-DEBT-RISK", "SOURCE-SKIP",
   "UNVERIFIED-COMPLETE", "REGRESSION"}
TacticalCodes ==
  {"EXIT-CODE-IGNORED", "BLIND-RETRY", "AUTOMATION-BYPASS", "CACHE-RISK",
   "PORT-CONFLICT-RISK", "CWD-MISMATCH"}
CatalogCodes == BehavioralCodes \cup TacticalCodes
CatalogCategory(code) == IF code \in BehavioralCodes THEN "behavioral" ELSE "tactical"

\* A PatternDetection as parseDetectionResponse returns it for a catalog code;
\* the confidence is kept in tenths.
Detection(code) ==
  [code |-> code, category |-> CatalogCategory(code), confidence |-> 9,
   evidence |-> "evidence"]

\* An element of the array the detection provider answers with: JSON null or
\* an object. A code is a string, "" when falsy or missing, or the one-element
\* array ["UI-TRIAL"], written "[UI-TRIAL]"; a category or an evidence is ""
\* when missing; a confidence is a number (in tenths) or something else.
RawItem(code, category, tenths, isNumber, evidence) ==
  [json |-> "object", code |-> code, category |-> category,
   confidence |-> [isNumber |-> isNumber, tenths |-> tenths], evidence |-> evidence]

NullItem == [RawItem("", "", 0, FALSE, "") EXCEPT !.json = "null"]

RawItems ==
  { RawItem("UI-TRIAL", "behavioral", 9, TRUE, "evidence"),
    RawItem("BLIND-RETRY", "tactical", 14, TRUE, "evidence"),
    RawItem("BLIND-RETRY", "tactical", -3, TRUE, "evidence"),
    RawItem("MADE-UP", "behavioral", 9, TRUE, "evidence"),
    RawItem("UI-TRIAL", "tactical", 9, TRUE, "evidence"),
    RawItem("", "behavioral", 9, TRUE, "evidence"),
    RawItem("UI-TRIAL", "", 9, TRUE, "evidence"),
    RawItem("UI-TRIAL", "behavioral", 9, FALSE, "evidence"),
    RawItem("UI-TRIAL", "behavioral", 9, TRUE, ""),
    RawItem("[UI-TRIAL]", "behavioral", 9, TRUE, "evidence"),
    NullItem }

\* Sequences over S of length at most n.
SeqUpTo(S, n) == UNION {[1..k -> S] : k \in 0..n}

\* Replies of the detection provider: blank, "[]", text that is not JSON, JSON
\* that is not an array, an array, an array inside a markdown code fence.
Responses ==
  {[form |-> f, items |-> <<>>] : f \in {"blank", "emptyArray", "notJson", "notArray"}}
    \cup {[form |-> f, items |-> q] :
            f \in {"array", "fencedArray"}, q \in SeqUpTo(RawItems, MaxItems)}

\* The property key JavaScript derives from a code used as an index:
\* a string is its own key, a one-element array is keyed by its element.
PropertyKey(code) == IF code = "[UI-TRIAL]" THEN "UI-TRIAL" ELSE code

\* getPatternDefinition(code) is defined.
GetPatternDefinition(code) == PropertyKey(code) \in CatalogCodes

\* d.code && typeof d.confidence === 'number' && d.evidence && d.category
HasAllFields(d) ==
  d.code # "" /\ d.confidence.isNumber /\ d.evidence # "" /\ d.category # ""

\* Math.max(0, Math.min(1, confidence)), in tenths.
Clamp(tenths) == IF tenths < 0 THEN 0 ELSE IF tenths > 10 THEN 10 ELSE tenths

\* definition && definition.category === d.category
MatchesCatalog(d) ==
  GetPatternDefinition(d.code) /\ CatalogCategory(PropertyKey(d.code)) = d.category

\* detections.filter(...).map(...).filter(...) over items[k..].
RECURSIVE FilterDetections(_, _)
FilterDetections(items, k) ==
  IF k > Len(items) THEN <<>>
  ELSE (IF HasAllFields(items[k]) /\ MatchesCatalog(items[k])
        THEN <<[code |-> items[k].code, category |-> items[k].category,
                confidence |-> Clamp(items[k].confidence.tenths),
                evidence |-> items[k].evidence]>>
        ELSE <<>>)
       \o FilterDetections(items, k + 1)

\* PatternDetector.parseDetectionResponse: reading a property of null throws
\* inside the try block, which answers [].
ParseDetectionResponse(response) ==
  IF response.form \notin {"array", "fencedArray"} THEN <<>>
  ELSE IF \E k \in 1..Len(response.items) : response.items[k].json = "null" THEN <<>>
  ELSE FilterDetections(response.items, 1)

\* Accepted detections of one detectPatterns() call: parseDetectionResponse
\* keeps the order of the response and does not merge repeated codes.
EngineDetectionLists ==
  {<<>>, <<Detection("UI-TRIAL")>>,
   <<Detection("UI-TRIAL"), Detection("UI-TRIAL")>>,
   <<Detection("BLIND-RETRY"), Detection("UI-TRIAL")>>}

\* Accepted detections of one detectPatterns() call (already filtered by the catalog).
DetectionLists ==
  {<<>>, <<Detection("UI-TRIAL")>>, <<Detection("UI-TRIAL"), Detection("BLIND-RETRY")>>}

\* Memory.workspaceId of the process.
Workspace == "ws"

\* The pattern_occurrences row addPatternOccurrence inserts for a detection
\* (id and timestamp aside).
PatternRow(d) ==
  [session_id |-> CurSession, workspace_id |-> Workspace, pattern_code |-> d.code,
   pattern_category |-> d.category, confidence |-> d.confidence,
   evidence |-> d.evidence]

\* Rows the detections of the model can produce.
PatternRows == {PatternRow(Detection(c)) : c \in Codes}

\* An empty pattern_occurrences table: no copy of any row.
NoOccurrences == [r \in PatternRows |-> 0]

\* new PatternTracker(): an empty counts map, read as 0 for every code.
NoCounts == [c \in Codes |-> 0]

\* A plausible slip: the new count is stored twice over.
IncrementTwice(current) == current + 2

\* PatternTracker.increment: the new count of a code whose count is current.
Increment(current) == current + 1

\* PatternTracker.reset(): this.counts.clear()
ClearCounts(c) == NoCounts

\* A plausible slip: every threshold one occurrence late.
EscalationLevelLate(count) ==
  IF count <= 2 THEN "silent"
  ELSE IF count = 3 THEN "label"
  ELSE IF count = 4 THEN "confirm"
  ELSE "active"

\* PatternTracker.getEscalationLevel, as a function of the count.
EscalationLevel(count) ==
  IF count <= 1 THEN "silent"
  ELSE IF count = 2 THEN "label"
  ELSE IF count = 3 THEN "confirm"
  ELSE "active"

\* PATTERN_DEFINITIONS[code].suggestion, for the codes of the model.
Suggestion(code) ==
  IF code = "UI-TRIAL"
  THEN "Calculate positioning requirements before implementing UI changes"
  ELSE "Investigate root cause of failure before repeating commands"

\* The icon createLabel picks for an escalation level.
Icon(level) ==
  IF level \in {"silent", "label"} THEN "bar-chart"
  ELSE IF level = "confirm" THEN "warning"
  ELSE "red-circle"

\* PatternTracker.createLabel, count being the tracker's count of the code;
\* an undefined suggestion is the empty string.
CreateLabel(code, count) ==
  [code |-> code,
   icon |-> Icon(EscalationLevel(count)),
   frequency |-> count,
   escalationLevel |-> EscalationLevel(count),
   suggestion |-> IF EscalationLevel(count) \in {"confirm", "active"}
                  THEN Suggestion(code) ELSE ""]

\* TellerAgent.categoryForPattern.
CategoryForPattern(code) ==
  IF code \in {"UI-TRIAL", "REPEAT-FAILURE", "TECH-DEBT-RISK", "SOURCE-SKIP",
               "UNVERIFIED-COMPLETE", "REGRESSION"}
  THEN (IF code \in {"REPEAT-FAILURE", "TECH-DEBT-RISK"} THEN "anti_pattern" ELSE "habit")
  ELSE IF code \in {"EXIT-CODE-IGNORED", "BLIND-RETRY", "AUTOMATION-BYPASS",
                    "CACHE-RISK", "PORT-CONFLICT-RISK", "CWD-MISMATCH"}
  THEN "workflow_inefficiency"
  ELSE "habit"

\* TellerAgent.lessonTextForPattern, for the codes of the model.
LessonTextForPattern(code) ==
  IF code = "UI-TRIAL"
  THEN "Developer tends to adjust visual elements through trial-and-error instead of calculating requirements upfront"
  ELSE IF code = "BLIND-RETRY"
  THEN "Developer retries commands without investigating root causes"
  ELSE "Repeated pattern detected"

\* What the Lesson Extractor parses out of a well-formed reply.
ExtractedLesson ==
  [category |-> "habit", content |-> "Extracted lesson", confidence |-> 7]

\* One line of a provider reply: "<label>: <value>", or free text when the
\* label is empty.
ReplyLine(label, value) == [label |-> label, value |-> value]

LineText(l) ==
  IF l.label = "" THEN l.value
  ELSE IF l.value = "" THEN l.label \o ":"
  ELSE l.label \o ": " \o l.value

NoneLine == ReplyLine("", "NONE")

\* Replies in the layout the extraction prompt asks for: an optional Category
\* line, an optional Lesson line and an optional Confidence line, or "NONE".
CategoryLines ==
  {<<>>} \cup {<<ReplyLine("Category", v)>> : v \in {"", "habit", "Habit", "style"}}

LessonLines == {<<>>} \cup {<<ReplyLine("Lesson", v)>> : v \in {"", ExtractedLesson.content}}

ConfidenceLines == {<<>>} \cup {<<ReplyLine("Confidence", v)>> : v \in {"0.8", "7"}}

LessonReplies ==
  {c \o l \o f : c \in CategoryLines, l \in LessonLines, f \in ConfidenceLines}
    \cup {<<NoneLine>>}

LessonContents ==
  {LessonTextForPattern(c) : c \in Codes} \cup {ExtractedLesson.content}
    \cup {LineText(f[1]) : f \in ConfidenceLines \ {<<>>}}

NoLesson == [category |-> "none", confidence |-> -1]

\* The first word of a line, as \w+ reads it: the label of a labelled line.
FirstWord(l) == IF l.label = "" THEN l.value ELSE l.label

\* What the group of /<label>:\s*(...)/ captures in a reply, "" when the
\* expression does not match. \s* runs over the line break, so a label with
\* nothing behind it captures from the next line: its first word for (\w+),
\* the whole line for (.+?)(?:\n|$).
Capture(reply, label, word) ==
  IF \A i \in 1..Len(reply) : reply[i].label # label THEN ""
  ELSE LET i == CHOOSE j \in 1..Len(reply) : reply[j].label = label
       IN IF reply[i].value # "" THEN reply[i].value
          ELSE IF i = Len(reply) THEN ""
          ELSE IF word THEN FirstWord(reply[i + 1])
          ELSE LineText(reply[i + 1])

\* parseFloat of the confidence values of the model, in tenths.
ParseFloat(text) ==
  CASE text = "0.8" -> 8
    [] text = "0.5" -> 5
    [] text = "7" -> 70

ValidCategories ==
  {"mistake_pattern", "habit", "skill_gap", "anti_pattern", "workflow_inefficiency"}

NullLesson == [category |-> "none", content |-> "", confidence |-> -1]

\* LessonExtractor.parseResponse
ParseLessonResponse(reply) ==
  IF reply = <<NoneLine>> \/ reply = <<>> THEN NullLesson
  ELSE LET categoryMatch == Capture(reply, "Category", TRUE)
           lessonMatch == Capture(reply, "Lesson", FALSE)
           confidenceMatch == Capture(reply, "Confidence", TRUE)
           category == IF categoryMatch # "" THEN categoryMatch ELSE "habit"
           confidence == ParseFloat(IF confidenceMatch # "" THEN confidenceMatch
                                    ELSE "0.5")
       IN IF lessonMatch = "" THEN NullLesson
          ELSE IF category \notin ValidCategories THEN NullLesson
          ELSE [category |-> category, content |-> lessonMatch,
                confidence |-> IF confidence > 10 THEN 10 ELSE confidence]

\* A plausible slip: INSERT OR REPLACE, the row is rewritten on conflict.
AddLessonReplace(ls, category, content, initialConfidence) ==
  [ls EXCEPT ![content] = [category |-> category, confidence |-> initialConfidence]]

\* Memory.addLesson: INSERT ... ON CONFLICT(content) DO UPDATE SET
\* confidence = MIN(1.0, confidence + 0.1). Confidence is kept in tenths.
AddLesson(ls, category, content, initialConfidence) ==
  IF ls[content] = NoLesson
  THEN [ls EXCEPT ![content] = [category |-> category, confidence |-> initialConfidence]]
  ELSE [ls EXCEPT ![content].confidence = IF @ + 1 > 10 THEN 10 ELSE @ + 1]

\* One line of a displayed text. A prefix line carries icon, code, the word
\* after the code and the frequency shown in "(xN)" (0 when none is shown);
\* the other lines carry a text.
Line(kind, icon, code, word, shown, text) ==
  [line |-> kind, icon |-> icon, code |-> code, word |-> word, shown |-> shown,
   text |-> text]

TextLine(kind, text) == Line(kind, "", "", "", 0, text)

\* ObservationFormatter.formatPatternPrefix
FormatPatternPrefix(p) ==
  IF p.escalationLevel = "label"
  THEN Line("prefix", p.icon, p.code, "", p.frequency, "")
  ELSE IF p.escalationLevel = "confirm"
  THEN Line("prefix", p.icon, p.code, "confirmed", p.frequency, "")
  ELSE IF p.escalationLevel = "active"
  THEN Line("prefix", p.icon, p.code, "active", p.frequency, "")
  ELSE Line("prefix", p.icon, p.code, "", 0, "")

\* ObservationFormatter.getPatternDefinition, for the codes of the model.
PatternDefinitionText(code) ==
  IF code = "UI-TRIAL"
  THEN "Iterative visual adjustment without measuring constraints first"
  ELSE IF code = "BLIND-RETRY"
  THEN "Retrying commands without investigating root cause"
  ELSE "Unknown pattern"

\* escalationOrder of getHighestEscalation
EscalationOrder(level) ==
  IF level = "silent" THEN 1
  ELSE IF level = "label" THEN 2
  ELSE IF level = "confirm" THEN 3
  ELSE IF level = "active" THEN 4
  ELSE 1

\* A plausible slip: the reduce keeps the first label's level.
FirstEscalation(patterns, k, highest) ==
  IF patterns = <<>> THEN highest ELSE patterns[1].escalationLevel

\* ObservationFormatter.getHighestEscalation: the reduce over patterns[k..].
RECURSIVE HighestEscalation(_, _, _)
HighestEscalation(patterns, k, highest) ==
  IF k > Len(patterns) THEN highest
  ELSE HighestEscalation(patterns, k + 1,
         IF EscalationOrder(patterns[k].escalationLevel) > EscalationOrder(highest)
         THEN patterns[k].escalationLevel ELSE highest)

\* patterns.map(p => p.escalationLevel === level ? line : "").filter(Boolean)
RECURSIVE LevelLines(_, _, _)
LevelLines(patterns, k, level) ==
  IF k > Len(patterns) THEN <<>>
  ELSE (IF patterns[k].escalationLevel # level THEN <<>>
        ELSE IF level = "confirm"
        THEN <<TextLine("pattern", PatternDefinitionText(patterns[k].code))>>
        ELSE <<TextLine("consider", patterns[k].suggestion)>>)
       \o LevelLines(patterns, k + 1, level)

\* A plausible slip: the raw text is displayed, the labels dropped.
FormatRaw(text, labels) == <<TextLine("text", text)>>

\* ObservationFormatter.format(...).displayText, as its sequence of lines. The
\* providers return trimmed text, so the final trim() removes nothing.
Format(text, labels) ==
  IF Len(labels) = 0 THEN <<TextLine("text", text)>>
  ELSE LET patternPrefixes == [k \in 1..Len(labels) |-> FormatPatternPrefix(labels[k])]
           highestEscalation == HighestEscalation(labels, 1, "silent")
       IN patternPrefixes
          \o (IF highestEscalation \in {"confirm", "active"}
              THEN LevelLines(labels, 1, highestEscalation) ELSE <<>>)
          \o <<TextLine("text", text)>>

NoFailure == <<0, "none">>

\* Store writes of the completion block that may throw, for a detection list.
\* pattern_occurrences declares FOREIGN KEY(pattern_code) REFERENCES
\* lessons(content) and no lesson has a pattern code as its content: where the
\* SQLite build enforces foreign keys the first insert throws ("foreignKey"),
\* where it does not the insert goes through.
WriteFailures(dets) ==
  {NoFailure, <<0, "addObservation">>}
    \cup {<<k, "addPatternOccurrence">> : k \in 1..Len(dets)}
    \cup {<<k, "addLesson">> : k \in 1..Len(dets)}
    \cup {<<k, "foreignKey">> : k \in 1..(IF dets = <<>> THEN 0 ELSE 1)}

\* patternDetections.map(...): per detection, increment the tracker, store the
\* occurrence, upsert the lesson from the third occurrence on, create the label.
\* A throwing store call ends the loop with the writes made so far in place.
RECURSIVE TrackDetections(_, _, _, _)
TrackDetections(dets, k, fail, st) ==
  IF k > Len(dets) \/ st.thrown # "none" THEN st
  ELSE LET code == dets[k].code
           n == Increment(st.counts[code])
           c1 == [st.counts EXCEPT ![code] = n]
           o1 == [st.occurrences EXCEPT ![PatternRow(dets[k])] = @ + 1]
       IN IF fail \in {<<k, "addPatternOccurrence">>, <<k, "foreignKey">>}
          THEN [st EXCEPT !.counts = c1, !.thrown = fail[2]]
          ELSE IF n >= 3 /\ fail = <<k, "addLesson">>
          THEN [st EXCEPT !.counts = c1, !.occurrences = o1, !.thrown = "addLesson"]
          ELSE TrackDetections(dets, k + 1, fail,
                 [counts |-> c1,
                  occurrences |-> o1,
                  lessons |-> IF n >= 3
                              THEN AddLesson(st.lessons, CategoryForPattern(code),
                                             LessonTextForPattern(code), 1)
                              ELSE st.lessons,
                  labels |-> Append(st.labels, CreateLabel(code, n)),
                  thrown |-> "none"])

\* Replies of the analysis provider: a rejection, an empty string, a text
\* shorter than 20 characters, a text of at least 20 characters.
Replies == {"reject", "empty", "short", "long"}

\* A plausible slip: the emptiness test of the reply is dropped.
HasTextAlways(reply) == TRUE

\* if (text && text.length > 0)
HasText(reply) == reply # "empty"

\* A plausible slip: the length guard of detectPatterns is dropped.
DetectionCallsUnguarded(reply) == 1

\* detectPatterns makes its provider call only for a text of 20 characters or more.
DetectionCalls(reply) == IF reply = "long" THEN 1 ELSE 0

\* A plausible slip: the observation is stored as soon as the analysis reply
\* arrives, before the await of detectPatterns.
ProviderResolveEager(i) ==
  /\ cycles[i].pc = "analyzing"
  /\ \E reply \in Replies :
       /\ cycles' = [cycles EXCEPT ![i] =
            IF reply = "reject" THEN Caught(@, "analyzeWithDepth")
            ELSE IF HasText(reply)
            THEN [@ EXCEPT !.pc = "detecting", !.text = reply,
                           !.detectCalls = DetectionCalls(reply)]
            ELSE Resolved([@ EXCEPT !.text = reply])]
       /\ observations' = IF reply # "reject" /\ HasText(reply)
                          THEN Append(observations,
                                      [cycle |-> i, text |-> Format(reply, <<>>)])
                          ELSE observations
  /\ UNCHANGED <<events, occurrences, lessons, lastAnalysisTime,
                 patternCounter, counts, notified, lessonJobs, started,
                 pendingWarmups, liveIntervals, analysisInterval>>

\* The analysis call settles: lines 129-133, up to the await of detectPatterns.
ProviderResolve(i) ==
  /\ cycles[i].pc = "analyzing"
  /\ \E reply \in Replies :
       cycles' = [cycles EXCEPT ![i] =
         IF reply = "reject" THEN Caught(@, "analyzeWithDepth")
         ELSE IF HasText(reply)
         THEN [@ EXCEPT !.pc = "detecting", !.text = reply,
                        !.detectCalls = DetectionCalls(reply)]
         ELSE Resolved([@ EXCEPT !.text = reply])]
  /\ UNCHANGED <<events, observations, occurrences, lessons, lastAnalysisTime,
                 patternCounter, counts, notified, lessonJobs, started,
                 pendingWarmups, liveIntervals, analysisInterval>>

\* detectPatterns() settles and the rest of the cycle runs: lines 133-174.
\* A text under 20 characters gets no detection call; a rejected detection
\* call is swallowed inside detectPatterns and yields no detections.
DetectResolveFrom(i, lists) ==
  /\ cycles[i].pc = "detecting"
  /\ \E rejected \in (IF cycles[i].text = "long" THEN BOOLEAN ELSE {FALSE}) :
     \E dets \in (IF cycles[i].text = "long" /\ ~rejected THEN lists ELSE {<<>>}) :
     \E fail \in WriteFailures(dets) :
     \E st \in {TrackDetections(dets, 1, fail,
                   [counts |-> counts, occurrences |-> occurrences,
                    lessons |-> lessons, labels |-> <<>>, thrown |-> "none"])} :
     \E display \in {Format(cycles[i].text, st.labels)} :
       LET c0 == [cycles[i] EXCEPT !.detectFailed = rejected, !.dets = dets]
       IN /\ counts' = st.counts
          /\ occurrences' = st.occurrences
          /\ lessons' = st.lessons
          /\ IF st.thrown # "none"
             THEN /\ cycles' = [cycles EXCEPT ![i] = Caught(c0, st.thrown)]
                  /\ UNCHANGED <<observations, notified, lessonJobs>>
             ELSE IF fail = <<0, "addObservation">>
             THEN /\ cycles' = [cycles EXCEPT ![i] = Caught(c0, "addObservation")]
                  /\ UNCHANGED <<observations, notified, lessonJobs>>
             ELSE /\ fail = NoFailure
                  /\ observations' = Append(observations, [cycle |-> i, text |-> display])
                  /\ lessonJobs' = IF cycles[i].text = "long"
                                   THEN lessonJobs + 1 ELSE lessonJobs
                  /\ notified' = Append(notified,
                        [cycle |-> i, text |-> display, depth |-> cycles[i].depth])
                  /\ cycles' = [cycles EXCEPT ![i] = Resolved([c0 EXCEPT !.wrote = TRUE])]
  /\ UNCHANGED <<events, lastAnalysisTime, patternCounter, started,
                 pendingWarmups, liveIntervals, analysisInterval>>

DetectResolve(i) == DetectResolveFrom(i, DetectionLists)

\* A plausible slip: the catch of extractAndStore's promise hands a store
\* error to the error sink of the cycle that wrote last.
LessonResolveToSink ==
  /\ lessonJobs > 0
  /\ lessonJobs' = lessonJobs - 1
  /\ \E outcome \in {"reject", "none", "lesson", "storeThrows"} :
       /\ lessons' = IF outcome = "lesson"
                     THEN AddLesson(lessons, ExtractedLesson.category,
                                    ExtractedLesson.content, ExtractedLesson.confidence)
                     ELSE lessons
       /\ cycles' = IF outcome = "storeThrows"
                    THEN [cycles EXCEPT ![Len(cycles)].errs = @ + 1]
                    ELSE cycles
  /\ UNCHANGED <<events, observations, occurrences, lastAnalysisTime, patternCounter,
                 counts, notified, started, pendingWarmups, liveIntervals,
                 analysisInterval>>

\* A fire-and-forget extractAndStore() settles: a rejected or "NONE" reply
\* stores nothing; a lesson is upserted; every failure is swallowed.
LessonResolve ==
  /\ lessonJobs > 0
  /\ lessonJobs' = lessonJobs - 1
  /\ \E outcome \in {"reject", "none", "lesson", "storeThrows"} :
       lessons' = IF outcome = "lesson"
                  THEN AddLesson(lessons, ExtractedLesson.category,
                                 ExtractedLesson.content, ExtractedLesson.confidence)
                  ELSE lessons
  /\ UNCHANGED <<events, observations, occurrences, lastAnalysisTime, patternCounter,
                 counts, cycles, notified, started, pendingWarmups, liveIntervals,
                 analysisInterval>>

\* ------------------------------------------------------- scheduling and capture
\* Memory.addEvent, called by the capture listeners of index.ts.
AppendEvent ==
  /\ Cardinality(SessionRows) < MaxEvents
  /\ \E t \in Timestamps :
       events' = Append(events, [session |-> CurSession, ts |-> t])
  /\ UNCHANGED <<observations, occurrences, lessons, lastAnalysisTime, patternCounter,
                 counts, cycles, notified, lessonJobs, started, pendingWarmups,
                 liveIntervals, analysisInterval>>

\* TellerAgent.start(): the tracker is reset, a warm-up timeout is created whose
\* handle is dropped, and the handle of a new interval replaces whatever
\* this.analysisInterval held.
StartCall ==
  /\ started' = TRUE
  /\ counts' = ClearCounts(counts)
  /\ pendingWarmups' = pendingWarmups + 1
  /\ liveIntervals' = liveIntervals + 1
  /\ analysisInterval' = TRUE
  /\ UNCHANGED <<events, observations, occurrences, lessons, lastAnalysisTime,
                 patternCounter, cycles, notified, lessonJobs>>

\* TellerAgent.start, called once by the deferred startup of index.ts.
Start == ~started /\ StartCall

\* shutdown() of index.ts has run: TellerAgent.stop(), then process.exit(0).
Exited == started /\ ~analysisInterval

\* TellerAgent.stop, called by shutdown() only.
Stop ==
  /\ analysisInterval
  /\ liveIntervals' = liveIntervals - 1
  /\ analysisInterval' = FALSE
  /\ UNCHANGED <<events, observations, occurrences, lessons, lastAnalysisTime,
                 patternCounter, counts, cycles, notified, lessonJobs, started,
                 pendingWarmups>>

\* setTimeout(() => this.analyze(), 15_000) fires.
WarmupFire ==
  /\ pendingWarmups > 0
  /\ pendingWarmups' = pendingWarmups - 1
  /\ AnalyzeBegin
  /\ UNCHANGED liveIntervals

\* setInterval(() => this.analyze(), this.intervalMs) fires.
IntervalTick ==
  /\ liveIntervals > 0
  /\ AnalyzeBegin
  /\ UNCHANGED <<pendingWarmups, liveIntervals>>

\* analyzeNow().
AnalyzeNow ==
  /\ AnalyzeBegin
  /\ UNCHANGED <<pendingWarmups, liveIntervals>>

\* ------------------------------------------------------------ OpencodeWatcher
\* Date.now() as read by the watcher, in ms: the clock is an input and is held
\* fixed over a run.
StartupNow == 1000000

\* No "event" notification yet.
NoEvent ==
  [type |-> "", role |-> "", content |-> [len |-> 0, blank |-> TRUE],
   timestamp |-> 0, source |-> "", sessionId |-> "", model |-> "",
   provider |-> "", agent |-> ""]

PartFiles == 1..NumParts
\* One envelope (message) file: parts with an odd number belong to its
\* message, parts with an even number to a message whose envelope never
\* reaches the storage.
MessageFiles == {1}
MsgOf(p) == IF p % 2 = 1 THEN 1 ELSE 2

\* JavaScript a || b on strings and on numbers.
OrStr(a, b) == IF a = "" THEN b ELSE a
OrNum(a, b) == IF a = 0 THEN b ELSE a

\* What readFileSync + JSON.parse may find in a part file: unreadable or
\* malformed, a non-text part, a blank text, a text with and without its own
\* session and start time. A text is its length and whether it is all blanks.
PartContents(p) ==
  { [ok |-> FALSE, type |-> "", text |-> [len |-> 0, blank |-> TRUE],
     messageID |-> 0, sessionID |-> "", start |-> 0],
    [ok |-> TRUE, type |-> "tool", text |-> [len |-> 0, blank |-> TRUE],
     messageID |-> MsgOf(p), sessionID |-> "ses_part", start |-> 500],
    [ok |-> TRUE, type |-> "text", text |-> [len |-> 3, blank |-> TRUE],
     messageID |-> MsgOf(p), sessionID |-> "ses_part", start |-> 500],
    [ok |-> TRUE, type |-> "text", text |-> [len |-> 2500, blank |-> FALSE],
     messageID |-> MsgOf(p), sessionID |-> "ses_part", start |-> 500],
    [ok |-> TRUE, type |-> "text", text |-> [len |-> 12, blank |-> FALSE],
     messageID |-> MsgOf(p), sessionID |-> "", start |-> 0] }

\* What a message file may hold: malformed, the full envelope of a user turn,
\* the full envelope of an assistant turn, an envelope with none of the
\* optional fields.
MessageContents(m) ==
  { [ok |-> FALSE, id |-> 0, role |-> "", modelID |-> "", providerID |-> "",
     userModelID |-> "", userProviderID |-> "", agent |-> "", sessionID |-> "",
     created |-> 0],
    [ok |-> TRUE, id |-> m, role |-> "user", modelID |-> "", providerID |-> "",
     userModelID |-> "gpt-4o", userProviderID |-> "openai", agent |-> "build",
     sessionID |-> "ses_msg", created |-> 400],
    [ok |-> TRUE, id |-> m, role |-> "assistant", modelID |-> "claude",
     providerID |-> "anthropic", userModelID |-> "", userProviderID |-> "",
     agent |-> "", sessionID |-> "ses_msg", created |-> 450],
    [ok |-> TRUE, id |-> 0, role |-> "", modelID |-> "", providerID |-> "",
     userModelID |-> "", userProviderID |-> "", agent |-> "", sessionID |-> "",
     created |-> 0] }

\* entries.slice(-k): the last k entries; slice(-0) is the whole array.
SliceLast(s, k) ==
  IF k = 0 \/ k >= Len(s) THEN s ELSE SubSeq(s, Len(s) - k + 1, Len(s))

\* One branch of cleanupSeenSets.
EvictOldestHalf(s) ==
  IF Len(s) > MAX_SEEN_SIZE THEN SliceLast(s, MAX_SEEN_SIZE \div 2) ELSE s

\* cleanupSeenSets on the watcher's state w; evicted records the part paths dropped.
CleanupSeenSets(w) ==
  [w EXCEPT !.seenMessages = EvictOldestHalf(@),
            !.seenParts = EvictOldestHalf(@),
            !.messageBuffer = EvictOldestHalf(@),
            !.evicted = @ \cup (Range(w.seenParts) \ Range(EvictOldestHalf(w.seenParts)))]

\* Map.set: an existing key keeps its position, a new key goes last.
MapSet(buf, id, meta) ==
  IF \E k \in 1..Len(buf) : buf[k].id = id
  THEN [k \in 1..Len(buf) |-> IF buf[k].id = id THEN [id |-> id, meta |-> meta] ELSE buf[k]]
  ELSE Append(buf, [id |-> id, meta |-> meta])

\* A plausible slip: the lookup key never matches.
MapHasNever(buf, id) == FALSE

\* this.messageBuffer.get(msgId) finds an entry.
MapHas(buf, id) == \E k \in 1..Len(buf) : buf[k].id = id

\* this.messageBuffer.get(msgId)
MapGet(buf, id) == buf[CHOOSE k \in 1..Len(buf) : buf[k].id = id].meta

\* The metadata handleMessage buffers for message file m holding msg.
MessageMeta(msg, now) ==
  LET role == OrStr(msg.role, "unknown")
  IN [role |-> role,
      model |-> IF role = "user" THEN msg.userModelID
                ELSE IF role = "assistant" THEN msg.modelID ELSE "",
      provider |-> IF role = "user" THEN msg.userProviderID
                   ELSE IF role = "assistant" THEN msg.providerID ELSE "",
      agent |-> IF role \in {"user", "assistant"} THEN msg.agent ELSE "",
      sessionId |-> OrStr(msg.sessionID, "unknown"),
      timestamp |-> OrNum(msg.created, now)]

\* A plausible slip: the envelope is buffered although the file did not parse.
HandleMessageUnparsed(w, m, msg, now) ==
  IF m \in Range(w.seenMessages) THEN w
  ELSE LET w1 == CleanupSeenSets([w EXCEPT !.seenMessages = Append(@, m)])
       IN [w1 EXCEPT !.messageBuffer =
             MapSet(@, OrNum(msg.id, m), MessageMeta(msg, now))]

\* handleMessage(filePath) on state w, the file holding msg.
HandleMessage(w, m, msg, now) ==
  IF m \in Range(w.seenMessages) THEN w
  ELSE LET w1 == CleanupSeenSets([w EXCEPT !.seenMessages = Append(@, m)])
       IN IF ~msg.ok THEN w1
          ELSE [w1 EXCEPT !.messageBuffer =
                  MapSet(@, OrNum(msg.id, m), MessageMeta(msg, now))]

\* text.slice(0, 2000)
Slice2000(text) == [text EXCEPT !.len = IF @ > 2000 THEN 2000 ELSE @]

\* The OpencodeEvent handlePart builds from a text part and the envelope buffer.
PartEvent(part, buf, now) ==
  LET has == MapHas(buf, part.messageID)
      meta == MapGet(buf, part.messageID)
      sessionId == OrStr(part.sessionID, "unknown")
      timestamp == OrNum(part.start, now)
  IN [type |-> "conversation",
      role |-> IF has THEN OrStr(meta.role, "unknown") ELSE "unknown",
      content |-> Slice2000(part.text),
      timestamp |-> IF has THEN OrNum(meta.timestamp, timestamp) ELSE timestamp,
      source |-> "opencode",
      sessionId |-> IF has THEN OrStr(meta.sessionId, sessionId) ELSE sessionId,
      model |-> IF has THEN meta.model ELSE "",
      provider |-> IF has THEN meta.provider ELSE "",
      agent |-> IF has THEN meta.agent ELSE ""]

\* A plausible slip: the seen-set test is dropped.
AlreadySeenNever(seen, f) == FALSE

\* this.seenParts.has(filePath)
AlreadySeen(seen, f) == f \in Range(seen)

\* this.seenParts.add(filePath)
AddSeenPart(w, p) ==
  IF p \in Range(w.seenParts) THEN w
  ELSE [w EXCEPT !.seenParts = Append(@, p), !.evicted = @ \ {p}]

\* A plausible slip: the path is marked seen only once the file has parsed.
HandlePartSeenAfterParse(w, p, part, now) ==
  IF AlreadySeen(w.seenParts, p) \/ ~part.ok THEN w
  ELSE LET w1 == CleanupSeenSets(AddSeenPart(w, p))
       IN IF part.type # "text" \/ part.text.blank THEN w1
          ELSE [w1 EXCEPT
                  !.emitCount[p] = @ + 1,
                  !.lastEmitted = PartEvent(part, w1.messageBuffer, now)]

\* handlePart(filePath) on state w, the file holding part.
HandlePart(w, p, part, now) ==
  IF AlreadySeen(w.seenParts, p) THEN w
  ELSE LET w1 == CleanupSeenSets(AddSeenPart(w, p))
       IN IF ~part.ok \/ part.type # "text" \/ part.text.blank THEN w1
          ELSE [w1 EXCEPT
                  !.emitCount[p] = @ + 1,
                  !.lastEmitted = PartEvent(part, w1.messageBuffer, now)]

\* snapshotExisting: const recentCutoff = Date.now() - 5 * 60 * 1000
RecentCutoff(now) == now - 5 * 60 * 1000

\* A plausible slip: the boundary instant counts as recent.
IsRecentInclusive(mtimeMs, cutoff) == mtimeMs >= cutoff

\* stat.mtimeMs > cutoff
IsRecent(mtimeMs, cutoff) == mtimeMs > cutoff

\* Modification times of the files found at startup: 4 minutes old (inside
\* the window) and exactly 5 minutes old (the oldest instant outside it is
\* the boundary itself).
RecentMtime == StartupNow - 4 * 60 * 1000
StaleMtime == StartupNow - 5 * 60 * 1000

\* readdirSync does not list the file.
Absent == 0

\* walkAndProcessRecent(messageDir, cutoff, "message") over the files from k on;
\* dir[m] is [mtime, content] of file m, mtime Absent when there is no file.
RECURSIVE WalkMessages(_, _, _, _)
WalkMessages(w, k, dir, now) ==
  IF k \notin MessageFiles THEN w
  ELSE WalkMessages(
         IF dir[k].mtime = Absent THEN w
         ELSE IF IsRecent(dir[k].mtime, RecentCutoff(now))
         THEN HandleMessage(w, k, dir[k].content, now)
         ELSE [w EXCEPT !.seenMessages =
                 IF k \in Range(@) THEN @ ELSE Append(@, k)],
         k + 1, dir, now)

\* walkAndProcessRecent(partDir, cutoff, "part") over files k..NumParts.
RECURSIVE WalkParts(_, _, _, _)
WalkParts(w, k, dir, now) ==
  IF k > NumParts THEN w
  ELSE WalkParts(
         IF dir[k].mtime = Absent THEN w
         ELSE IF IsRecent(dir[k].mtime, RecentCutoff(now))
         THEN HandlePart(w, k, dir[k].content, now)
         ELSE AddSeenPart(w, k),
         k + 1, dir, now)

RECURSIVE SumUpTo(_, _)
SumUpTo(f, n) == IF n = 0 THEN 0 ELSE f[n] + SumUpTo(f, n - 1)
TotalEmitted(f) == SumUpTo(f, NumParts)

\* No file in the storage.
EmptyDir ==
  [messages |-> [m \in MessageFiles |->
                   [mtime |-> Absent,
                    content |-> CHOOSE x \in MessageContents(m) : x.role = "user"]],
   parts |-> [p \in PartFiles |->
                [mtime |-> Absent,
                 content |-> CHOOSE x \in PartContents(p) :
                               x.type = "text" /\ x.text.len > 2000]]]

\* The storage as start() finds it: per file, no file, a stale file or a
\* recent file; a file that exists holds the full envelope of a user turn,
\* respectively a text part longer than 2000 characters.
MessageDir(m) ==
  {[mtime |-> t, content |-> c] :
     t \in {Absent, StaleMtime, RecentMtime},
     c \in {x \in MessageContents(m) : x.role = "user"}}

PartDir(p) ==
  {[mtime |-> t, content |-> c] :
     t \in {Absent, StaleMtime, RecentMtime},
     c \in {x \in PartContents(p) : x.type = "text" /\ x.text.len > 2000}}

StartupDirs ==
  {d \in [messages : [MessageFiles -> UNION {MessageDir(m) : m \in MessageFiles}],
          parts : [PartFiles -> UNION {PartDir(p) : p \in PartFiles}]] :
     /\ \A m \in MessageFiles : d.messages[m] \in MessageDir(m)
     /\ \A p \in PartFiles : d.parts[p] \in PartDir(p)}

\* OpencodeWatcher.start(): the snapshot of both directories, then the watchers.
WatcherStart ==
  /\ wphase = "idle"
  /\ \E exists \in BOOLEAN :
       IF ~exists
       THEN /\ wphase' = "nostorage"
            /\ UNCHANGED <<watcher, staleAtStart>>
       ELSE /\ watcher' = WalkParts(WalkMessages(watcher, 1, startupDir.messages,
                                                 StartupNow),
                                    1, startupDir.parts, StartupNow)
            /\ TotalEmitted(watcher'.emitCount) <= MaxEmitted
               /\ staleAtStart' = {p \in PartFiles :
                     /\ startupDir.parts[p].mtime # Absent
                     /\ StartupNow - startupDir.parts[p].mtime >= 5 * 60 * 1000}
               /\ wphase' = "watching"
  /\ startupDir' = EmptyDir
  /\ UNCHANGED <<agentVars, hook, wiring>>

\* messageWatcher.on("add", fp => this.handleMessage(fp))
MessageAdded(m) ==
  /\ wphase = "watching"
  /\ \E msg \in MessageContents(m) :
       watcher' = HandleMessage(watcher, m, msg, StartupNow)
  /\ UNCHANGED <<wphase, startupDir, staleAtStart>>
  /\ UNCHANGED <<agentVars, hook, wiring>>

\* partWatcher.on("add", fp => this.handlePart(fp))
PartAdded(p) ==
  /\ wphase = "watching"
  /\ \E part \in PartContents(p) :
       /\ watcher' = HandlePart(watcher, p, part, StartupNow)
       /\ watcher'.emitCount # watcher.emitCount
            => TotalEmitted(watcher'.emitCount) <= MaxEmitted
  /\ UNCHANGED <<wphase, startupDir, staleAtStart>>
  /\ UNCHANGED <<agentVars, hook, wiring>>

\* ----------------------------------------------------------------- TerminalHook
\* A TerminalHook that is not looked at.
NoHook == [pc |-> "none"]

\* The module body of index.ts is not looked at.
NoWiring == [pc |-> "none"]

\* The history file is the texts between its line breaks and whether a line
\* break ends it. A text is the number of the command it holds: 0 for a blank
\* line, negative for a command written before the process, 1, 2, ... for
\* the commands written while it runs.
HistoryFile(lines, nl) == [lines |-> lines, nl |-> nl]

\* content.split("\n"): the empty string gives one empty text, and a final
\* line break gives an empty text after the last line.
Split(file) ==
  IF file.lines = <<>> /\ ~file.nl THEN <<0>>
  ELSE file.lines \o (IF file.nl THEN <<0>> ELSE <<>>)

\* lines.slice(from, to) with 0-based bounds.
Slice(lines, from, to) ==
  IF from >= to THEN <<>> ELSE SubSeq(lines, from + 1, to)

\* The commands poll() emits for newLines[k..]: the trimmed text of every
\* line that is not blank.
RECURSIVE Commands(_, _)
Commands(newLines, k) ==
  IF k > Len(newLines) THEN <<>>
  ELSE (IF newLines[k] = 0 THEN <<>> ELSE <<newLines[k]>>) \o Commands(newLines, k + 1)

\* A shell appends text to the history file: "text\n" behind a file that is
\* empty or ends with a line break, "\ntext" behind one that does not.
AppendTo(file, text) ==
  IF file.nl \/ file.lines = <<>>
  THEN HistoryFile(Append(file.lines, text), TRUE)
  ELSE HistoryFile(Append(file.lines, text), FALSE)

\* A command is written to the history file, a blank line now and then.
HistoryAppend ==
  /\ hook.pc \in {"idle", "polling"}
  /\ hook.written < MaxLines
  /\ \E blank \in BOOLEAN :
       LET text == IF blank THEN 0 ELSE hook.commands + 1
       IN hook' = [hook EXCEPT
                     !.file = AppendTo(@, text),
                     !.written = @ + 1,
                     !.commands = IF blank THEN @ ELSE @ + 1,
                     !.pending = IF hook.pc = "polling" /\ ~blank
                                 THEN Append(@, text) ELSE @]
  /\ UNCHANGED <<agentVars, watcher, wphase, startupDir, staleAtStart, wiring, call, db>>

\* TerminalHook.start()
HookStart ==
  /\ hook.pc = "idle"
  /\ \E exists \in BOOLEAN :
       hook' = IF ~exists
               THEN [hook EXCEPT !.pc = "nofile", !.errors = @ + 1]
               ELSE [hook EXCEPT !.pc = "polling",
                                 !.lastLineCount = Len(Split(hook.file)),
                                 !.atStart = hook.commands,
                                 !.newlineRead = hook.file.nl]
  /\ UNCHANGED <<agentVars, watcher, wphase, startupDir, staleAtStart, wiring, call, db>>

\* TerminalHook.poll(), fired by the interval; readFileSync may throw.
Poll ==
  /\ hook.pc = "polling"
  /\ \E readable \in BOOLEAN :
       IF ~readable THEN hook' = [hook EXCEPT !.errors = @ + 1, !.polls = @ + 1]
       ELSE LET lines == Split(hook.file)
                currentCount == Len(lines)
            IN hook' =
                 IF currentCount > hook.lastLineCount
                 THEN [hook EXCEPT
                         !.emitted = @ \o Commands(Slice(lines, hook.lastLineCount,
                                                         currentCount), 1),
                         !.lastLineCount = currentCount,
                         !.pending = <<>>,
                         !.polls = @ + 1,
                         !.newlineRead = @ \/ hook.file.nl]
                 ELSE [hook EXCEPT !.pending = <<>>, !.polls = @ + 1,
                                   !.newlineRead = @ \/ hook.file.nl]
  /\ hook'.polls <= MaxPolls
  /\ UNCHANGED <<agentVars, watcher, wphase, startupDir, staleAtStart, wiring, call, db>>

\* TerminalHook.stop()
HookStop ==
  /\ hook.pc = "polling"
  /\ hook' = [hook EXCEPT !.pc = "stopped"]
  /\ UNCHANGED <<agentVars, watcher, wphase, startupDir, staleAtStart, wiring, call, db>>

\* --------------------------------------------------------- the wiring of index.ts
\* What `git rev-parse HEAD` answers ("" when it fails) and what
\* `git diff --unified=1` prints ("" for a clean tree); a diff stands for its
\* simpleHash.
Heads == {"", "h1", "h2"}
Diffs == {"", "d1", "d2"}

\* bus.emit("event", ...): the notification, whether the UI listener is
\* attached and whether the deferred start has run.
BusEmit(w, type) ==
  [w EXCEPT !.bus = Append(@, [type |-> type, heard |-> w.listening,
                               started |-> w.pc = "started"])]

\* captureGitDiff(): fails names the git command that throws, if any.
CaptureGitDiff(w, currentHead, diff, fails) ==
  LET previousHead == w.lastGitHead
      w1 == IF currentHead # "" THEN [w EXCEPT !.lastGitHead = currentHead] ELSE w
      newCommits == currentHead # "" /\ currentHead # previousHead /\ previousHead # ""
      w2 == IF newCommits THEN BusEmit(w1, "git_commit") ELSE w1
  IN IF newCommits /\ fails = "log" THEN w1
     ELSE IF fails = "diff" THEN w2
     ELSE IF diff # ""
     THEN (IF diff # w2.lastUnstagedHash
           THEN BusEmit([w2 EXCEPT !.lastUnstagedHash = diff], "git_unstaged")
           ELSE w2)
     ELSE [w2 EXCEPT !.lastUnstagedHash = ""]

\* The module body up to the agent: lastGitHead = getGitHead(), the initial
\* captureGitDiff() and the registration of the git interval.
InitialCapture ==
  /\ wiring.pc = "load"
  /\ \E head \in Heads, diff \in Diffs, fails \in {"none", "diff"} :
       wiring' = [CaptureGitDiff([wiring EXCEPT !.lastGitHead = head], head, diff, fails)
                  EXCEPT !.pc = "wired"]
  /\ UNCHANGED <<agentVars, watcher, wphase, startupDir, staleAtStart, hook, call, db>>

\* const app = renderApp(bus), and the registration of the deferred start.
RenderApp ==
  /\ wiring.pc = "wired"
  /\ wiring' = [wiring EXCEPT !.pc = "rendered"]
  /\ UNCHANGED <<agentVars, watcher, wphase, startupDir, staleAtStart, hook, call, db>>

\* The effect of App runs and attaches the "event" listener to the bus; it
\* runs within the 500 ms the deferred start waits.
Mount ==
  /\ wiring.pc = "rendered"
  /\ wiring' = [wiring EXCEPT !.pc = "mounted", !.listening = TRUE]
  /\ UNCHANGED <<agentVars, watcher, wphase, startupDir, staleAtStart, hook, call, db>>

\* The callback of setTimeout(..., 500): the capture sources and the agent start.
DeferredStart ==
  /\ wiring.pc = "mounted"
  /\ wiring' = [wiring EXCEPT !.pc = "started"]
  /\ UNCHANGED <<agentVars, watcher, wphase, startupDir, staleAtStart, hook, call, db>>

\* setInterval(captureGitDiff, GIT_DIFF_INTERVAL): the first tick comes 3 s
\* after the module body, later than the deferred start.
GitPoll ==
  /\ wiring.pc = "started"
  /\ \E head \in Heads, diff \in Diffs, fails \in {"none", "log", "diff"} :
       wiring' = CaptureGitDiff(wiring, head, diff, fails)
  /\ Len(wiring'.bus) <= MaxBus
  /\ UNCHANGED <<agentVars, watcher, wphase, startupDir, staleAtStart, hook, call, db>>

\* terminal.on("event") and opencode.on("event") forward to the bus.
SourceEvent ==
  /\ wiring.pc = "started"
  /\ Len(wiring.bus) < MaxBus
  /\ \E type \in {"command", "conversation"} : wiring' = BusEmit(wiring, type)
  /\ UNCHANGED <<agentVars, watcher, wphase, startupDir, staleAtStart, hook, call, db>>

\* ------------------------------------------------- side-effect-free operations
\* No operation is being invoked.
NoCall == [fn |-> "none", args |-> <<>>, done |-> FALSE, result |-> <<>>]

\* An invocation of fn on args that has not returned yet.
Invoke(fn, args) == [fn |-> fn, args |-> args, done |-> FALSE, result |-> <<>>]

\* The invocation returns r.
Return(r) ==
  /\ ~call.done
  /\ call' = [call EXCEPT !.done = TRUE, !.result = r]
  /\ UNCHANGED <<agentVars, watcherVars, db>>

\* Values of the analysisDepth option.
Depths == {"quick", "standard", "deep"}

\* The depth selection of analyze() for a configured depth, the value of
\* patternCounter after its increment and the size of a non-empty batch.
DepthCalls ==
  {Invoke("currentDepth", [cfg |-> d, counter |-> k, n |-> n]) :
     d \in Depths, k \in 1..MaxCounter, n \in 1..MaxBatch}

SelectDepth ==
  /\ call.fn = "currentDepth"
  /\ Return(CurrentDepth(call.args.cfg, call.args.counter, call.args.n))

\* parseDetectionResponse applied to a reply of the detection provider.
ParseCalls == {Invoke("parseDetectionResponse", r) : r \in Responses}

ParseResponse ==
  /\ call.fn = "parseDetectionResponse"
  /\ Return(ParseDetectionResponse(call.args))

\* Labels createLabel returns for a code counted 1 to MaxCount times.
Labels == {CreateLabel(c, n) : c \in Codes, n \in 1..MaxCount}

\* format(originalText, patterns, timestamp) on a provider text and up to
\* MaxLabels labels.
FormatCalls ==
  {Invoke("format", [text |-> t, labels |-> q]) :
     t \in {"short", "long"}, q \in SeqUpTo(Labels, MaxLabels)}

FormatObservation ==
  /\ call.fn = "format"
  /\ Return(Format(call.args.text, call.args.labels))

\* Confidences between 0.0 and 1.0, in tenths.
Tenths == 0..10

\* A caller that upserts lessons with one initial confidence; upserts counts
\* its addLesson calls per content.
LessonCalls ==
  {Invoke("addLesson", [initialConfidence |-> c0,
                        upserts |-> [l \in LessonContents |-> 0]]) : c0 \in Tenths}

\* memory.addLesson(category, content, initialConfidence)
UpsertLesson(content) ==
  /\ call.fn = "addLesson"
  /\ call.args.upserts[content] < MaxUpserts
  /\ lessons' = AddLesson(lessons, "habit", content, call.args.initialConfidence)
  /\ call' = [call EXCEPT !.args.upserts[content] = @ + 1]
  /\ UNCHANGED <<events, observations, occurrences, lastAnalysisTime, patternCounter,
                 counts, cycles, notified, lessonJobs, started, pendingWarmups,
                 liveIntervals, analysisInterval, watcherVars, db>>

\* A PatternTracker that has counted up to MaxCount detections per code, asked
\* for the escalation level of a code or reset.
TrackerCalls ==
  {Invoke(f, [code |-> c]) : f \in {"getEscalationLevel", "reset"}, c \in Codes}

TrackerCounts == [Codes -> 0..MaxCount]

\* PatternTracker.getEscalationLevel(code)
GetEscalationLevel ==
  /\ call.fn = "getEscalationLevel"
  /\ Return(EscalationLevel(counts[call.args.code]))

\* PatternTracker.reset()
Reset ==
  /\ call.fn = "reset"
  /\ ~call.done
  /\ call' = [call EXCEPT !.done = TRUE]
  /\ counts' = ClearCounts(counts)
  /\ UNCHANGED <<events, observations, occurrences, lessons, lastAnalysisTime,
                 patternCounter, cycles, notified, lessonJobs, started,
                 pendingWarmups, liveIntervals, analysisInterval, watcherVars, db>>

\* getRecentEvents(sinceMs) on the events table after the appends of the
\* session so far.
RecentCalls == {Invoke("getRecentEvents", [sinceMs |-> t]) : t \in 0..MaxTs}

RecentEvents ==
  /\ call.fn = "getRecentEvents"
  /\ Return(GetRecentEvents(call.args.sinceMs))

\* Rows of the observations table: this session's and an earlier session's,
\* of this workspace and of another one.
ObservationRows ==
  {[session_id |-> s, workspace_id |-> w, timestamp |-> t] :
     s \in {CurSession, OldSession}, w \in {Workspace, "other"}, t \in 1..MaxObsTs}

\* getPastObservations(limit) on an observations table of up to m rows; rows
\* are named by their position.
PastCalls(m) ==
  {Invoke("getPastObservations", [rows |-> q, limit |-> n]) :
     q \in SeqUpTo(ObservationRows, m), n \in 0..m}

\* A plausible slip: the WHERE clause without its workspace_id term.
PastFilterAnyWorkspace(row) == row.session_id # CurSession

\* WHERE workspace_id = ? AND session_id != ?
PastFilter(row) == row.workspace_id = Workspace /\ row.session_id # CurSession

\* ORDER BY timestamp DESC: the orders of the rows S the clause allows; SQL
\* leaves the order of rows with equal timestamps open.
DescOrders(rows, S) ==
  {p \in [1..Cardinality(S) -> S] :
     /\ \A a, b \in 1..Cardinality(S) : a # b => p[a] # p[b]
     /\ \A a, b \in 1..Cardinality(S) :
           a < b => rows[p[a]].timestamp >= rows[p[b]].timestamp}

\* LIMIT n, and Array.prototype.slice(0, n).
Take(p, n) == SubSeq(p, 1, IF n < Len(p) THEN n ELSE Len(p))

\* buildPrompt: for (const o of pastObservations.slice(0, 5))
PastSection(pastObservations) == Take(pastObservations, 5)

\* memory.getPastObservations(limit) and the part of the prompt built from it.
GetPastObservations ==
  /\ call.fn = "getPastObservations"
  /\ \E p \in DescOrders(call.args.rows,
                          {k \in 1..Len(call.args.rows) : PastFilter(call.args.rows[k])}) :
       Return([past |-> Take(p, call.args.limit),
               prompt |-> PastSection(Take(p, call.args.limit))])

\* extractAndStore on an observation text of a given length, the provider
\* answering with a reply; the same reply may come more than once.
ExtractCalls ==
  {Invoke("extractAndStore", [reply |-> r, length |-> n, runs |-> 0]) :
     r \in LessonReplies, n \in {19, 20}}

\* LessonExtractor.extract: no provider call for a text under 20 characters;
\* a rejected call is caught and yields null.
Extract(length, rejected, reply) ==
  IF length < 20 THEN NullLesson
  ELSE IF rejected THEN NullLesson
  ELSE ParseLessonResponse(reply)

\* LessonExtractor.extractAndStore
ExtractAndStore ==
  /\ call.fn = "extractAndStore"
  /\ call.args.runs < MaxUpserts
  /\ \E rejected \in BOOLEAN :
       \E lesson \in {Extract(call.args.length, rejected, call.args.reply)} :
         /\ lessons' = IF lesson # NullLesson
                       THEN AddLesson(lessons, lesson.category, lesson.content,
                                      lesson.confidence)
                       ELSE lessons
         /\ call' = [call EXCEPT !.args.runs = @ + 1, !.result = lesson]
  /\ UNCHANGED <<events, observations, occurrences, lastAnalysisTime, patternCounter,
                 counts, cycles, notified, lessonJobs, started, pendingWarmups,
                 liveIntervals, analysisInterval, watcherVars, db>>

\* ------------------------------------------------- Memory: the database file
\* Milliseconds in a day, as cleanupOldData computes them.
DayMs == 24 * 60 * 60 * 1000

\* Date.now() when the constructor runs.  Timestamps are counted from a point
\* twenty days before that, far enough back for both retention horizons.
Now == 20 * DayMs

\* this.cleanupOldData(5)
RetentionDays == 5

CHECKPOINT_INTERVAL == 50

\* The store outside SpecStore and SpecJournal.
NoDb == [phase |-> "none"]

\* Columns of events and observations before and after workspace_id was added;
\* data stands for the payload columns (type, source, content | observation).
LegacyColumns == {"id", "session_id", "data", "timestamp"}
CurrentColumns == LegacyColumns \cup {"workspace_id"}

\* A table sqlite_master does not list.
NoTable == [columns |-> {}, rows |-> <<>>, indexes |-> {}]

\* The tables init() passes to migrateTable, in that order.
Migrated == <<"events", "observations">>

TableNames == {"events", "observations", "lessons", "pattern_occurrences"}

\* The indexNames argument of migrateTable.
IndexNames(tableName) ==
  IF tableName = "events"
  THEN {"idx_events_session", "idx_events_workspace", "idx_events_timestamp"}
  ELSE {"idx_observations_session", "idx_observations_workspace"}

\* exec(createSql)
CreateTable == [columns |-> CurrentColumns, rows |-> <<>>, indexes |-> {}]

\* SELECT id, session_id, '', ..., timestamp FROM <table>_old
CopiedRow(r) ==
  [id |-> r.id, session_id |-> r.session_id, workspace_id |-> "",
   data |-> r.data, timestamp |-> r.timestamp]

\* The statements of the rebuild between BEGIN TRANSACTION and the end of the
\* try block.
MigrationSteps ==
  <<"rename", "create", "copy", "dropIndexes", "createIndexes", "dropOld", "commit">>

\* One statement of the rebuild on tx = [live |-> <table>, old |-> <table>_old].
MigrationStep(tx, tableName, step) ==
  CASE step = "rename" -> [live |-> NoTable, old |-> tx.live]
    [] step = "create" -> [tx EXCEPT !.live = CreateTable]
    [] step = "copy" ->
         [tx EXCEPT !.live.rows =
            [k \in 1..Len(tx.old.rows) |-> CopiedRow(tx.old.rows[k])]]
    [] step = "dropIndexes" ->
         [tx EXCEPT !.live.indexes = @ \ IndexNames(tableName),
                    !.old.indexes = @ \ IndexNames(tableName)]
    [] step = "createIndexes" ->
         [tx EXCEPT !.live.indexes = @ \cup IndexNames(tableName)]
    [] step = "dropOld" -> [tx EXCEPT !.old = NoTable]
    [] OTHER -> tx

\* The try block from statement k on; fail names the statement that throws.
RECURSIVE RunMigration(_, _, _, _)
RunMigration(tx, tableName, k, fail) ==
  IF k > Len(MigrationSteps) THEN [tx |-> tx, thrown |-> "none"]
  ELSE IF MigrationSteps[k] = fail THEN [tx |-> tx, thrown |-> fail]
  ELSE RunMigration(MigrationStep(tx, tableName, MigrationSteps[k]),
                    tableName, k + 1, fail)

\* A plausible slip: the catch block rethrows without rolling back.
KeepPartial(snapshot, tx) == tx

\* exec("ROLLBACK"), or the rollback SQLite did itself when the statement
\* failed: the transaction's changes, schema changes included, are undone.
Rollback(snapshot, tx) == snapshot

\* The statements whose failure migrateTable can meet on a table: none unless
\* the table exists without workspace_id.
MigrationFailures(table) ==
  IF table # NoTable /\ "workspace_id" \notin table.columns
  THEN {"begin"} \cup {MigrationSteps[k] : k \in 1..Len(MigrationSteps)}
  ELSE {}

\* migrateTable(tableName, createSql, indexNames) on a database holding table
\* under that name; fail is the statement that throws ("none": no statement),
\* auto says that SQLite had already ended the transaction when the catch block
\* ran, so that ROLLBACK throws in its turn.
MigrateTable(table, tableName, fail, auto) ==
  IF table = NoTable
  THEN [live |-> [CreateTable EXCEPT !.indexes = IndexNames(tableName)],
        old |-> NoTable, thrown |-> "none"]
  ELSE IF "workspace_id" \in table.columns
  THEN [live |-> [table EXCEPT !.indexes = @ \cup IndexNames(tableName)],
        old |-> NoTable, thrown |-> "none"]
  ELSE IF fail = "begin"
  THEN [live |-> table, old |-> NoTable, thrown |-> "begin"]
  ELSE LET snapshot == [live |-> table, old |-> NoTable]
           run == RunMigration(snapshot, tableName, 1, fail)
           tx == IF run.thrown = "none" THEN run.tx ELSE Rollback(snapshot, run.tx)
       IN [live |-> tx.live, old |-> tx.old,
           thrown |-> IF run.thrown # "none" /\ auto THEN "rollback"
                      ELSE run.thrown]

\* A plausible slip: <= in place of <.
DeleteUpTo(table, cutoff) ==
  [table EXCEPT !.rows = SelectSeq(@, LAMBDA r : ~(r.timestamp <= cutoff))]

\* DELETE FROM <table> WHERE timestamp < ?
DeleteOlder(table, cutoff) ==
  [table EXCEPT !.rows = SelectSeq(@, LAMBDA r : ~(r.timestamp < cutoff))]

\* The statements of cleanupOldData's try block.
CleanupSteps == <<"events", "observations", "pattern_occurrences", "checkpoint">>

CleanupFailures == {"none"} \cup {CleanupSteps[k] : k \in 1..Len(CleanupSteps)}

\* Position of a statement in the try block; past the end for "none".
CleanupIndex(fail) ==
  IF fail = "none" THEN Len(CleanupSteps) + 1
  ELSE CHOOSE k \in 1..Len(CleanupSteps) : CleanupSteps[k] = fail

\* cleanupOldData(retentionDays): t1 and t2 are its two readings of Date.now(),
\* fail the statement that throws.  The statements before it have committed;
\* the catch block logs and returns.
CleanupOldData(tables, retentionDays, t1, t2, fail) ==
  LET cutoffTime == t1 - (retentionDays * DayMs)
      patternCutoffTime == t2 - (retentionDays * 2 * DayMs)
      n == CleanupIndex(fail)
  IN [t \in TableNames |->
        IF t = "events" /\ n > 1 THEN DeleteOlder(tables[t], cutoffTime)
        ELSE IF t = "observations" /\ n > 2 THEN DeleteOlder(tables[t], cutoffTime)
        ELSE IF t = "pattern_occurrences" /\ n > 3
          THEN DeleteOlder(tables[t], patternCutoffTime)
        ELSE tables[t]]

\* ------------------------------------------------- Memory: opening and closing
\* Timestamps one millisecond before, at and after t.
Around(t) == {t - 1, t, t + 1}

\* Timestamps of rows an earlier session left, around the horizons of the
\* cleanup the constructor runs.
EventStamps == Around(Now - (RetentionDays * DayMs))
PatternStamps ==
  Around(Now - (RetentionDays * 2 * DayMs)) \cup {Now - (RetentionDays * DayMs) - 1}

\* Rows with ids 1, 2, ... of an earlier session, one per timestamp of q.
StoredRows(q, columns) ==
  [k \in 1..Len(q) |->
     IF "workspace_id" \in columns
     THEN [id |-> k, session_id |-> OldSession, workspace_id |-> Workspace,
           data |-> "data", timestamp |-> q[k]]
     ELSE [id |-> k, session_id |-> OldSession, data |-> "data", timestamp |-> q[k]]]

\* What memory.db can hold under a table name when the constructor opens it:
\* nothing, or up to n rows under the given columns.
StoredTables(columns, stamps, indexes, n) ==
  {[columns |-> columns, rows |-> StoredRows(q, columns), indexes |-> indexes] :
     q \in SeqUpTo(stamps, n)}

LegacyIndexes(tableName) ==
  {i \in IndexNames(tableName) : i # "idx_" \o tableName \o "_workspace"}

MigratedTables(tableName, stamps, n) ==
  {NoTable}
    \cup StoredTables(LegacyColumns, stamps, LegacyIndexes(tableName), n)
    \cup StoredTables(CurrentColumns, stamps, IndexNames(tableName), n)

LessonColumns == {"id", "category", "content", "confidence"}
LessonIndexes == {"idx_lessons_category", "idx_lessons_confidence"}
PatternIndexes == {"idx_patterns_session", "idx_patterns_timestamp", "idx_patterns_code"}

\* A lessons table with one lesson of an earlier session.
StoredLessons ==
  [columns |-> LessonColumns, indexes |-> LessonIndexes,
   rows |-> <<[id |-> 1, category |-> "habit", content |-> "lesson", confidence |-> 5]>>]

\* The files memory.db can be with up to n rows per table.  The
\* pattern_occurrences rows of a file were written when the table had no
\* foreign key, or under a lesson whose content is the code.
Files(n) ==
  {[t \in TableNames |->
      CASE t = "events" -> e
        [] t = "observations" -> o
        [] t = "pattern_occurrences" -> p
        [] OTHER -> l] :
     e \in MigratedTables("events", EventStamps, n),
     o \in MigratedTables("observations", EventStamps, n),
     p \in {NoTable} \cup StoredTables(CurrentColumns, PatternStamps, PatternIndexes, n),
     l \in {NoTable, StoredLessons}}

\* What the last call on the store did: whether its row was written, the
\* checkpoint it issued and whether that succeeded, and what it threw.
Last(op, wrote, checkpoint, checkpointOk, thrown) ==
  [op |-> op, wrote |-> wrote, checkpoint |-> checkpoint,
   checkpointOk |-> checkpointOk, thrown |-> thrown]

NoCleanup == [ran |-> FALSE, t1 |-> 0, t2 |-> 0, fail |-> "none"]

\* memory.db before new Memory() opens it.
Closed(file) ==
  [phase |-> "file", tables |-> file, old |-> [t \in {"events", "observations"} |-> NoTable],
   file |-> file, atCleanup |-> file, cleanup |-> NoCleanup,
   insertCount |-> 0, written |-> [t \in TableNames |-> 0],
   last |-> Last("none", FALSE, "none", TRUE, "none")]

\* CREATE TABLE IF NOT EXISTS ...; CREATE INDEX IF NOT EXISTS ...
EnsureTable(table, columns, indexes) ==
  IF table = NoTable THEN [columns |-> columns, rows |-> <<>>, indexes |-> indexes]
  ELSE [table EXCEPT !.indexes = @ \cup indexes]

\* The inputs of one construction: the statement that fails, if one does.
NoFault == [at |-> "none", step |-> "none"]

Faults(tables) ==
  {NoFault}
    \cup {[at |-> "events", step |-> s] : s \in MigrationFailures(tables["events"])}
    \cup {[at |-> "observations", step |-> s] :
            s \in MigrationFailures(tables["observations"])}
    \cup {[at |-> "cleanup", step |-> s] : s \in CleanupFailures \ {"none"}}

StepOf(fault, at) == IF fault.at = at THEN fault.step ELSE "none"

\* The constructor threw.
Failed(d, tables, old, thrown) ==
  [d EXCEPT !.phase = "failed", !.tables = tables, !.old = old,
            !.last = Last("constructor", FALSE, "none", TRUE, thrown)]

\* new Memory(): init(), then cleanupOldData(5).
Constructed(d, fault, auto, t2) ==
  LET e == MigrateTable(d.tables["events"], "events", StepOf(fault, "events"), auto)
      o == MigrateTable(d.tables["observations"], "observations",
                        StepOf(fault, "observations"), auto)
      afterEvents == [d.tables EXCEPT !["events"] = e.live]
      afterInit ==
        [afterEvents EXCEPT
           !["observations"] = o.live,
           !["lessons"] = EnsureTable(@, LessonColumns, LessonIndexes),
           !["pattern_occurrences"] = EnsureTable(@, CurrentColumns, PatternIndexes)]
      fail == StepOf(fault, "cleanup")
  IN IF e.thrown # "none"
     THEN Failed(d, afterEvents, [d.old EXCEPT !["events"] = e.old], e.thrown)
     ELSE IF o.thrown # "none"
     THEN Failed(d, [afterEvents EXCEPT !["observations"] = o.live],
                 [d.old EXCEPT !["events"] = e.old, !["observations"] = o.old],
                 o.thrown)
     ELSE [d EXCEPT
             !.phase = "open",
             !.old = [d.old EXCEPT !["events"] = e.old, !["observations"] = o.old],
             !.atCleanup = afterInit,
             !.tables = CleanupOldData(afterInit, RetentionDays, Now, t2, fail),
             !.cleanup = [ran |-> TRUE, t1 |-> Now, t2 |-> t2, fail |-> fail],
             !.last = Last("constructor", FALSE,
                           IF CleanupIndex(fail) >= Len(CleanupSteps)
                           THEN "PASSIVE" ELSE "none",
                           fail # "checkpoint", "none")]

Construct ==
  /\ db.phase = "file"
  /\ \E fault \in Faults(db.tables) :
       \E auto \in (IF fault.at \in {"events", "observations"} THEN BOOLEAN ELSE {FALSE}),
          t2 \in (IF fault.at \in {"events", "observations"} THEN {Now}
                  ELSE {Now, Now + 1}) :
         db' = Constructed(db, fault, auto, t2)
  /\ UNCHANGED <<agentVars, watcherVars, call>>

\* memory.close(): pragma("wal_checkpoint(PASSIVE)"), then db.close().  ok
\* says whether the pragma returns; nothing catches what it throws, and then
\* db.close() is not reached.  alone says that no other process has memory.db
\* open: SQLite itself then checkpoints the whole log when the connection
\* closes.
Close ==
  /\ db.phase = "open"
  /\ \E ok \in BOOLEAN, alone \in BOOLEAN :
       db' = [db EXCEPT !.phase = IF ok THEN "closed" ELSE "open",
                        !.last = Last("close", FALSE,
                                      IF ok /\ alone THEN "PASSIVE+FULL" ELSE "PASSIVE",
                                      ok, IF ok THEN "none" ELSE "checkpoint")]
  /\ UNCHANGED <<agentVars, watcherVars, call>>

\* ------------------------------------------------------- Memory: the writes
\* Calls of addEvent, addLesson and addPatternOccurrence a session makes: enough
\* to pass the checkpoint interval twice.
MaxInserts == (2 * CHECKPOINT_INTERVAL) + 1

\* A memory.db that does not exist yet.
FreshFile == [t \in TableNames |-> NoTable]

\* id INTEGER PRIMARY KEY AUTOINCREMENT
NextId(table) ==
  1 + (IF table.rows = <<>> THEN 0
       ELSE CHOOSE m \in {r.id : r \in Range(table.rows)} :
              \A r \in Range(table.rows) : r.id <= m)

\* stmt.run(...) of an INSERT has returned: the row is in the table.
Insert(d, t, row) ==
  [d EXCEPT !.tables[t].rows = Append(@, row), !.written[t] = @ + 1]

\* A row of the current session.
SessionRow(table, data) ==
  [id |-> NextId(table), session_id |-> CurSession, workspace_id |-> Workspace,
   data |-> data, timestamp |-> Now]

\* maybeCheckpoint() at the end of operation op; ok says whether the pragma of
\* a due checkpoint returns.  Nothing catches what it throws.
MaybeCheckpoint(d, op, ok) ==
  LET n == d.insertCount + 1
      due == n % CHECKPOINT_INTERVAL = 0
  IN [d EXCEPT !.insertCount = n,
               !.last = Last(op, TRUE, IF due THEN "PASSIVE" ELSE "none", due => ok,
                             IF due /\ ~ok THEN "checkpoint" ELSE "none")]

\* memory.addEvent(event)
AddEvent ==
  /\ db.phase = "open"
  /\ db.insertCount < MaxInserts
  /\ \E ok \in BOOLEAN :
       db' = MaybeCheckpoint(Insert(db, "events", SessionRow(db.tables["events"], "data")),
                             "addEvent", ok)
  /\ UNCHANGED <<agentVars, watcherVars, call>>

\* memory.addObservation(observation)
AddObservation ==
  /\ db.phase = "open"
  /\ db.written["observations"] < MaxSideWrites
  /\ db' = [Insert(db, "observations", SessionRow(db.tables["observations"], "data"))
              EXCEPT !.last = Last("addObservation", TRUE, "none", TRUE, "none")]
  /\ UNCHANGED <<agentVars, watcherVars, call>>

\* INSERT INTO lessons ... ON CONFLICT(content) DO UPDATE SET
\*   confidence = MIN(1.0, confidence + 0.1)
UpsertRow(table, category, content, initialConfidence) ==
  IF \E k \in 1..Len(table.rows) : table.rows[k].content = content
  THEN [table EXCEPT !.rows =
          [k \in 1..Len(table.rows) |->
             IF table.rows[k].content = content
             THEN [table.rows[k] EXCEPT
                     !.confidence = IF @ + 1 > 10 THEN 10 ELSE @ + 1]
             ELSE table.rows[k]]]
  ELSE [table EXCEPT !.rows =
          Append(@, [id |-> NextId(table), category |-> category,
                     content |-> content, confidence |-> initialConfidence])]

\* Lesson sentences: one of the Lesson Extractor, and one that is a pattern code.
StoredContents == {"lesson", "UI-TRIAL"}

\* memory.addLesson(category, content, initialConfidence)
AddLessonRow(content) ==
  /\ db.phase = "open"
  /\ db.insertCount < MaxInserts
  /\ db.written["lessons"] < MaxSideWrites
  /\ \E ok \in BOOLEAN :
       db' = MaybeCheckpoint(
               [db EXCEPT !.tables["lessons"] = UpsertRow(@, "habit", content, 5),
                          !.written["lessons"] = @ + 1],
               "addLesson", ok)
  /\ UNCHANGED <<agentVars, watcherVars, call>>

\* FOREIGN KEY(pattern_code) REFERENCES lessons(content)
ForeignKeyHolds(d, patternCode) ==
  \E r \in Range(d.tables["lessons"].rows) : r.content = patternCode

\* memory.addPatternOccurrence(patternCode, ...): stmt.run throws when the
\* foreign key fails, before maybeCheckpoint is reached.
AddPatternOccurrence(patternCode) ==
  /\ db.phase = "open"
  /\ db.insertCount < MaxInserts
  /\ db.written["pattern_occurrences"] < MaxSideWrites
  /\ \E ok \in BOOLEAN :
       db' = IF ForeignKeyHolds(db, patternCode)
             THEN MaybeCheckpoint(
                    Insert(db, "pattern_occurrences",
                           SessionRow(db.tables["pattern_occurrences"], patternCode)),
                    "addPatternOccurrence", ok)
             ELSE [db EXCEPT !.last = Last("addPatternOccurrence", FALSE, "none", TRUE,
                                           "foreignKey")]
  /\ UNCHANGED <<agentVars, watcherVars, call>>

\* ------------------------------------------------------------ specifications
\* Cycles that have started and not yet finished.
InFlight == {i \in 1..Len(cycles) : cycles[i].pc # "done"}

\* new Memory() over a fresh session and new TellerAgent(), the tracker aside.
AgentFresh ==
  /\ events = <<[session |-> OldSession, ts |-> MaxTs]>>
  /\ observations = <<>>
  /\ occurrences = NoOccurrences
  /\ lessons = [l \in LessonContents |-> NoLesson]
  /\ lastAnalysisTime = 0
  /\ patternCounter = 0
  /\ cycles = <<>>
  /\ notified = <<>>
  /\ lessonJobs = 0
  /\ started = FALSE
  /\ pendingWarmups = 0
  /\ liveIntervals = 0
  /\ analysisInterval = FALSE

AgentInit == AgentFresh /\ counts = NoCounts

\* new OpencodeWatcher()
ReconcilerFresh ==
  /\ watcher = [seenMessages |-> <<>>, seenParts |-> <<>>, messageBuffer |-> <<>>,
                emitCount |-> [p \in PartFiles |-> 0], lastEmitted |-> NoEvent,
                evicted |-> {}]
  /\ wphase = "idle"
  /\ staleAtStart = {}

\* No capture source has started; the terminal hook and the wiring of
\* index.ts are left aside.
WatcherFresh == ReconcilerFresh /\ hook = NoHook /\ wiring = NoWiring

\* The analysis engine, the watcher left aside.
Init ==
  AgentInit /\ WatcherFresh /\ startupDir = EmptyDir /\ call = NoCall /\ db = NoDb

\* Nothing runs once the process has exited.
Next ==
  \/ ~Exited /\ AppendEvent /\ UNCHANGED <<watcherVars, call, db>>
  \/ ~Exited /\ Start /\ UNCHANGED <<watcherVars, call, db>>
  \/ ~Exited /\ Stop /\ UNCHANGED <<watcherVars, call, db>>
  \/ ~Exited /\ WarmupFire /\ UNCHANGED <<watcherVars, call, db>>
  \/ ~Exited /\ IntervalTick /\ UNCHANGED <<watcherVars, call, db>>
  \/ ~Exited /\ AnalyzeNow /\ UNCHANGED <<watcherVars, call, db>>
  \/ ~Exited /\ (\E i \in 1..Len(cycles) : ProviderResolve(i)) /\ UNCHANGED <<watcherVars, call, db>>
  \/ ~Exited /\ (\E i \in 1..Len(cycles) : DetectResolve(i)) /\ UNCHANGED <<watcherVars, call, db>>
  \/ ~Exited /\ LessonResolve /\ UNCHANGED <<watcherVars, call, db>>

Spec == Init /\ [][Next]_vars

\* The reconciler, the analysis engine left aside.
WatcherInit ==
  AgentInit /\ WatcherFresh /\ startupDir \in StartupDirs /\ call = NoCall
  /\ db = NoDb

WatcherNext ==
  \/ WatcherStart /\ UNCHANGED <<call, db>>
  \/ (\E m \in MessageFiles : MessageAdded(m)) /\ UNCHANGED <<call, db>>
  \/ (\E p \in PartFiles : PartAdded(p)) /\ UNCHANGED <<call, db>>

SpecWatcher == WatcherInit /\ [][WatcherNext]_vars

\* Envelope files that reach the storage while the watcher runs: one more
\* than the envelope buffer keeps.
EnvelopeFiles == 1..(MAX_SEEN_SIZE + 1)

\* What a file holds in this reading: unreadable or malformed, or the full
\* envelope of a user turn, respectively a long text part.
IntakeMessages(m) == {x \in MessageContents(m) : ~x.ok \/ x.role = "user"}
IntakeParts(p) == {x \in PartContents(p) : ~x.ok \/ x.text.len > 2000}

\* The storage as start() finds it in this reading: the envelope file and the
\* first two content files are missing or recent, and a recent file is
\* well-formed or not; stale files are left to the snapshot boundary.
IntakeDirs ==
  {d \in [messages : [MessageFiles -> UNION {
                         {EmptyDir.messages[m]} \cup
                         [mtime : {RecentMtime}, content : IntakeMessages(m)] :
                         m \in MessageFiles}],
          parts : [PartFiles -> UNION {
                     {EmptyDir.parts[p]} \cup
                     [mtime : {RecentMtime}, content : IntakeParts(p)] :
                     p \in PartFiles}]] :
     /\ \A m \in MessageFiles : d.messages[m].content \in MessageContents(m)
     /\ \A p \in PartFiles :
          /\ d.parts[p].content \in PartContents(p)
          /\ p > 2 => d.parts[p] = EmptyDir.parts[p]}

\* Watch notifications handled so far.
Handled == IF call.fn = "none" THEN 0 ELSE call.args.n

\* messageWatcher.on("add", ...) for envelope file m; call keeps the file
\* and what it held.
EnvelopeNotified(m) ==
  /\ wphase = "watching"
  /\ Handled < MaxHandled
  /\ \E msg \in IntakeMessages(m) :
       /\ watcher' = HandleMessage(watcher, m, msg, StartupNow)
       /\ call' = Invoke("handleMessage",
                         [file |-> m, content |-> msg, n |-> Handled + 1])
  /\ UNCHANGED <<wphase, startupDir, staleAtStart, db>>
  /\ UNCHANGED <<agentVars, hook, wiring>>

\* partWatcher.on("add", ...) for content file p; call keeps the file and
\* what it held.
ContentNotified(p) ==
  /\ wphase = "watching"
  /\ Handled < MaxHandled
  /\ \E part \in IntakeParts(p) :
       /\ watcher' = HandlePart(watcher, p, part, StartupNow)
       /\ watcher'.emitCount # watcher.emitCount
            => TotalEmitted(watcher'.emitCount) <= MaxEmitted
       /\ call' = Invoke("handlePart",
                         [file |-> p, content |-> part, n |-> Handled + 1])
  /\ UNCHANGED <<wphase, startupDir, staleAtStart, db>>
  /\ UNCHANGED <<agentVars, hook, wiring>>

\* The reconciler fed with well-formed and malformed files, each
\* notification recorded.
IntakeInit ==
  AgentInit /\ WatcherFresh /\ startupDir \in IntakeDirs /\ call = NoCall
  /\ db = NoDb

IntakeNext ==
  \/ WatcherStart /\ UNCHANGED <<call, db>>
  \/ \E m \in EnvelopeFiles : EnvelopeNotified(m)
  \/ \E p \in PartFiles : ContentNotified(p)

SpecIntake == IntakeInit /\ [][IntakeNext]_vars

\* A TerminalHook just constructed, over a history file that holds up to two
\* earlier commands and ends with a line break or not.
HookInit ==
  \E n \in 0..2, nl \in BOOLEAN :
    hook = [pc |-> "idle",
            file |-> HistoryFile([k \in 1..n |-> 0 - k], nl),
            lastLineCount |-> 0, emitted |-> <<>>, errors |-> 0,
            written |-> 0, commands |-> 0, atStart |-> 0, pending |-> <<>>,
            polls |-> 0, newlineRead |-> FALSE]

TerminalInit ==
  /\ AgentInit /\ ReconcilerFresh /\ startupDir = EmptyDir
  /\ HookInit /\ wiring = NoWiring /\ call = NoCall /\ db = NoDb

TerminalNext ==
  \/ HistoryAppend
  \/ HookStart
  \/ Poll
  \/ HookStop

SpecTerminal == TerminalInit /\ [][TerminalNext]_vars

\* index.ts starts to run its module body.
WiringInit ==
  /\ AgentInit /\ ReconcilerFresh /\ startupDir = EmptyDir
  /\ hook = NoHook /\ call = NoCall /\ db = NoDb
  /\ wiring = [pc |-> "load", lastGitHead |-> "", lastUnstagedHash |-> "",
               listening |-> FALSE, bus |-> <<>>]

WiringNext ==
  \/ InitialCapture
  \/ RenderApp
  \/ Mount
  \/ DeferredStart
  \/ GitPoll
  \/ SourceEvent

SpecWiring == WiringInit /\ [][WiringNext]_vars

\* The pattern engine: cycles forced one after the other by analyzeNow(), a
\* new one only once the previous one has finished, over detection responses
\* that may repeat a code; start() may come at any time.
EngineNext ==
  \/ AppendEvent /\ UNCHANGED <<watcherVars, call, db>>
  \/ Start /\ UNCHANGED <<watcherVars, call, db>>
  \/ InFlight = {} /\ AnalyzeNow /\ UNCHANGED <<watcherVars, call, db>>
  \/ (\E i \in 1..Len(cycles) : ProviderResolve(i)) /\ UNCHANGED <<watcherVars, call, db>>
  \/ (\E i \in 1..Len(cycles) : DetectResolveFrom(i, EngineDetectionLists))
       /\ UNCHANGED <<watcherVars, call, db>>
  \/ LessonResolve /\ UNCHANGED <<watcherVars, call, db>>

SpecEngine == Init /\ [][EngineNext]_vars

\* The side-effect-free operations, each applied to one argument list.
Calls ==
  DepthCalls \cup TrackerCalls \cup ParseCalls \cup FormatCalls \cup LessonCalls
    \cup RecentCalls \cup ExtractCalls

FunctionsInit ==
  /\ AgentFresh /\ WatcherFresh /\ startupDir = EmptyDir /\ db = NoDb
  /\ call \in Calls \cup PastCalls(MaxObsRows)
  /\ counts \in (IF call \in TrackerCalls THEN TrackerCounts ELSE {NoCounts})

FunctionsNext ==
  \/ SelectDepth
  \/ GetEscalationLevel
  \/ Reset
  \/ ParseResponse
  \/ FormatObservation
  \/ \E content \in LessonContents : UpsertLesson(content)
  \/ /\ call.fn = "getRecentEvents" /\ ~call.done
     /\ AppendEvent /\ UNCHANGED <<watcherVars, call, db>>
  \/ RecentEvents
  \/ GetPastObservations
  \/ ExtractAndStore

SpecFunctions == FunctionsInit /\ [][FunctionsNext]_vars

\* Opening memory.db, whatever an earlier version or session left in it.
StoreInit ==
  /\ AgentInit /\ WatcherFresh /\ startupDir = EmptyDir /\ call = NoCall
  /\ db \in {Closed(f) : f \in Files(MaxStored)}

StoreNext == Construct

SpecStore == StoreInit /\ [][StoreNext]_vars

\* One session on a new memory.db: construction, the writes, close.
JournalInit ==
  /\ AgentInit /\ WatcherFresh /\ startupDir = EmptyDir /\ call = NoCall
  /\ db = Closed(FreshFile)

JournalNext ==
  \/ Construct
  \/ AddEvent
  \/ AddObservation
  \/ \E content \in StoredContents : AddLessonRow(content)
  \/ AddPatternOccurrence("UI-TRIAL")
  \/ Close

SpecJournal == JournalInit /\ [][JournalNext]_vars

\* A TellerAgent whose owner calls start() and stop() any number of times and
\* does not exit; stop() on an agent without an interval handle changes nothing.
SchedulerNext ==
  \/ AppendEvent /\ UNCHANGED <<watcherVars, call, db>>
  \/ /\ pendingWarmups < MaxStarts /\ liveIntervals < MaxStarts
     /\ StartCall /\ UNCHANGED <<watcherVars, call, db>>
  \/ Stop /\ UNCHANGED <<watcherVars, call, db>>
  \/ WarmupFire /\ UNCHANGED <<watcherVars, call, db>>
  \/ IntervalTick /\ UNCHANGED <<watcherVars, call, db>>
  \/ (\E i \in 1..Len(cycles) : ProviderResolve(i)) /\ UNCHANGED <<watcherVars, call, db>>
  \/ (\E i \in 1..Len(cycles) : DetectResolve(i)) /\ UNCHANGED <<watcherVars, call, db>>
  \/ LessonResolve /\ UNCHANGED <<watcherVars, call, db>>

SpecScheduler == Init /\ [][SchedulerNext]_vars

\* ------------------------------------------------------------------- claims

\* Rows of the events table that some cycle has selected.
SelectedRows == UNION {Range(cycles[i].batch) : i \in 1..Len(cycles)}

\* Cycles that selected at least one event.
NonEmptyCycles == {i \in 1..Len(cycles) : cycles[i].batch # <<>>}

\* C1 (as stated): single-flight. At most one analysis cycle is in flight at
\* any time: a tick or an analyzeNow() call that fires while an earlier cycle
\* is still awaiting the provider does not start a second cycle.
C1_SingleFlight == Cardinality(InFlight) <= 1

\* C2: no stored event is analysed twice. Whatever the interleaving of
\* appends, ticks and analyzeNow() calls, overlapping cycles included, no row
\* of the events table is in the batches of two different cycles.
C2_NoEventAnalysedTwice ==
  \A i, j \in 1..Len(cycles) :
    i # j => Range(cycles[i].batch) \cap Range(cycles[j].batch) = {}

\* Two cycles that both selected events and both still await the provider.
C2_Witness ==
  \E i, j \in InFlight : i < j /\ cycles[i].batch # <<>> /\ cycles[j].batch # <<>>

\* C3 (as stated): batch selection. The batch of a cycle is exactly the set of
\* the current session's stored events whose timestamp is strictly greater
\* than the cursor at the start of the cycle.
C3_BatchIsEverythingAfterCursor ==
  [][(Len(cycles') = Len(cycles) + 1 /\ cycles'[Len(cycles')].failed # "getRecentEvents")
       => Range(cycles'[Len(cycles')].batch)
            = {r \in SessionRows : events[r].ts > lastAnalysisTime}]_vars

\* C4: cursor monotonicity. The cursor never decreases, it is 0 while no cycle
\* has selected an event, and afterwards it equals the greatest timestamp
\* among all events selected by the cycles so far.
C4_CursorMonotonic ==
  [][/\ lastAnalysisTime' >= lastAnalysisTime
     /\ SelectedRows' = {} => lastAnalysisTime' = 0
     /\ \A r \in SelectedRows' : events'[r].ts <= lastAnalysisTime'
     /\ SelectedRows' # {} => \E r \in SelectedRows' : events'[r].ts = lastAnalysisTime']_vars

\* Two cycles selected events and the cursor has reached the greatest timestamp.
C4_Witness ==
  /\ Cardinality(NonEmptyCycles) >= 2
  /\ lastAnalysisTime = MaxTs

\* C5: a cycle that finds zero new events is a no-op. It makes no provider
\* call, writes nothing to the store, sends no observation and no error
\* notification, and leaves the cursor and the every-5th-cycle counter as
\* they were; it is finished when it returns.
C5_EmptyCycleIsNoOp ==
  [][(/\ Len(cycles') = Len(cycles) + 1
      /\ cycles'[Len(cycles')].batch = <<>>
      /\ cycles'[Len(cycles')].failed = "none")
       => /\ cycles'[Len(cycles')].analysisCalls = 0
          /\ cycles'[Len(cycles')].detectCalls = 0
          /\ cycles'[Len(cycles')].errs = 0
          /\ ~cycles'[Len(cycles')].wrote
          /\ cycles'[Len(cycles')].pc = "done"
          /\ cycles'[Len(cycles')].outcome = "resolved"
          /\ UNCHANGED <<events, observations, occurrences, lessons, counts, notified,
                         lessonJobs, lastAnalysisTime, patternCounter>>]_vars

\* An empty cycle that ran after a cycle had moved the cursor and the counter.
C5_Witness ==
  \E i \in 2..Len(cycles) :
    /\ cycles[i].batch = <<>>
    /\ cycles[i].failed = "none"
    /\ cycles[i].outcome = "resolved"
    /\ lastAnalysisTime > 0
    /\ patternCounter > 0

\* C6: a cycle with a non-empty batch whose context reads succeed makes exactly
\* one analysis call to the provider. When the reply is empty the cycle ends
\* there: no further provider call, no Observation persisted or notified, no
\* error, and the cursor stays advanced to the maximum timestamp of the batch
\* (until a later cycle with events advances it further).
C6_OneAnalysisCall ==
  \A i \in 1..Len(cycles) :
    /\ (cycles[i].batch # <<>> /\ cycles[i].failed # "context")
         => cycles[i].analysisCalls = 1
    /\ cycles[i].text = "empty"
         => /\ cycles[i].batch # <<>>
            /\ cycles[i].pc = "done"
            /\ cycles[i].outcome = "resolved"
            /\ cycles[i].analysisCalls = 1
            /\ cycles[i].detectCalls = 0
            /\ cycles[i].errs = 0
            /\ ~cycles[i].wrote
            /\ \A k \in 1..Len(observations) : observations[k].cycle # i
            /\ \A k \in 1..Len(notified) : notified[k].cycle # i
            /\ \A r \in Range(cycles[i].batch) : events[r].ts <= lastAnalysisTime
            /\ (\A j \in (i + 1)..Len(cycles) : cycles[j].batch = <<>>)
                 => \E r \in Range(cycles[i].batch) : events[r].ts = lastAnalysisTime

\* A cycle over two events got an empty reply; nothing was observed.
C6_Witness ==
  \E i \in 1..Len(cycles) :
    /\ cycles[i].text = "empty"
    /\ Len(cycles[i].batch) = 2
    /\ observations = <<>>
    /\ lastAnalysisTime > 0

\* C7 (as stated): failure isolation. Whenever a store or provider operation
\* inside a cycle throws or rejects, the error sink is invoked exactly once and
\* analyze() resolves.
C7_FailureIsolation ==
  \A i \in 1..Len(cycles) :
    (cycles[i].pc = "done" /\ (cycles[i].failed # "none" \/ cycles[i].detectFailed))
      => (cycles[i].errs = 1 /\ cycles[i].outcome = "resolved")

\* C8 (amended): deduplication until eviction. A notification emits at most one
\* Event and only for a part whose path is not in the seen set; a part that has
\* emitted before emits again only after cleanupSeenSets has evicted its path.
C8_DedupUntilEvicted ==
  [][\A p \in PartFiles :
       /\ watcher'.emitCount[p] >= watcher.emitCount[p]
       /\ watcher'.emitCount[p] <= watcher.emitCount[p] + 1
       /\ watcher'.emitCount[p] # watcher.emitCount[p]
            => /\ \A k \in 1..Len(watcher.seenParts) : watcher.seenParts[k] # p
               /\ watcher.emitCount[p] > 0 => p \in watcher.evicted]_vars

\* A part emitted, was evicted, emitted again and is back in the seen set.
C8_Witness ==
  \E p \in PartFiles :
    /\ watcher.emitCount[p] = 2
    /\ \E k \in 1..Len(watcher.seenParts) : watcher.seenParts[k] = p

\* C8 (as stated): the same part record triggers at most one Event, however
\* many times it is notified.
C8_AtMostOneEvent == \A p \in PartFiles : watcher.emitCount[p] <= 1

BufferedEnvelopes(buf, id) == {buf[k].meta : k \in {j \in 1..Len(buf) : buf[j].id = id}}

\* C10: content emission never waits for metadata. In every state of the live
\* watcher, handling a text part with non-blank text whose path is not in the
\* seen set emits exactly one Event for it, in that step. With an envelope in
\* the buffer the Event carries the envelope's role, session, model, provider,
\* agent and timestamp; without one it carries role "unknown" and the part's
\* own session and timestamp (their defaults when the part has none). Handling
\* an envelope, late or not, emits nothing and changes no emitted Event.
C10_EmissionNeverWaits ==
  wphase = "watching" =>
    /\ \A p \in PartFiles \ Range(watcher.seenParts) :
       \A part \in {x \in PartContents(p) : x.ok /\ x.type = "text" /\ ~x.text.blank} :
         LET after == HandlePart(watcher, p, part, StartupNow)
             envelopes == BufferedEnvelopes(after.messageBuffer, part.messageID)
         IN /\ after.emitCount = [watcher.emitCount EXCEPT ![p] = @ + 1]
            /\ after.lastEmitted.type = "conversation"
            /\ after.lastEmitted.content.len
                 = (IF part.text.len > 2000 THEN 2000 ELSE part.text.len)
            /\ \A meta \in envelopes :
                 /\ after.lastEmitted.role = meta.role
                 /\ after.lastEmitted.sessionId = meta.sessionId
                 /\ after.lastEmitted.model = meta.model
                 /\ after.lastEmitted.provider = meta.provider
                 /\ after.lastEmitted.agent = meta.agent
                 /\ after.lastEmitted.timestamp = meta.timestamp
            /\ envelopes = {}
                 => /\ after.lastEmitted.role = "unknown"
                    /\ after.lastEmitted.sessionId
                         = (IF part.sessionID = "" THEN "unknown" ELSE part.sessionID)
                    /\ after.lastEmitted.timestamp
                         = (IF part.start = 0 THEN StartupNow ELSE part.start)
    /\ \A m \in MessageFiles : \A msg \in MessageContents(m) :
         LET after == HandleMessage(watcher, m, msg, StartupNow)
         IN /\ after.emitCount = watcher.emitCount
            /\ after.lastEmitted = watcher.lastEmitted

\* A part was emitted with the defaults and its user-turn envelope arrived
\* afterwards: still one Event, still with role "unknown".
C10_Witness ==
  /\ \E p \in PartFiles :
       /\ MsgOf(p) = 1
       /\ watcher.emitCount = [q \in PartFiles |-> IF q = p THEN 1 ELSE 0]
  /\ watcher.lastEmitted.role = "unknown"
  /\ watcher.lastEmitted.sessionId = "ses_part"
  /\ \E k \in 1..Len(watcher.messageBuffer) :
       /\ watcher.messageBuffer[k].id = 1
       /\ watcher.messageBuffer[k].meta.role = "user"

\* C11: after every completed reconciler step (a handled envelope or content
\* notification, or the startup snapshot pass) seenMessages, seenParts and
\* messageBuffer each hold at most MAX_SEEN_SIZE entries.
C11_BoundedMemory ==
  /\ Len(watcher.seenMessages) <= MAX_SEEN_SIZE
  /\ Len(watcher.seenParts) <= MAX_SEEN_SIZE
  /\ Len(watcher.messageBuffer) <= MAX_SEEN_SIZE

\* C12 (as stated): the depth handed to the provider is deep when the cycle
\* counter is a multiple of 5 or the batch holds more than 15 events;
\* otherwise quick when the batch holds fewer than 3 events; otherwise the
\* configured default. Every 5th cycle is deep whatever its batch size.
C12_DeepestWins ==
  (call.fn = "currentDepth" /\ call.done) =>
     call.result =
       IF call.args.counter % 5 = 0 \/ call.args.n > 15 THEN "deep"
       ELSE IF call.args.n < 3 THEN "quick"
       ELSE call.args.cfg

\* C13: the escalation level of a code is a function of its count alone:
\* silent up to 1, label at 2, confirm at 3, active from 4 on; after reset()
\* every count is 0.
C13_EscalationTable ==
  /\ (call.fn = "getEscalationLevel" /\ call.done) =>
        LET count == counts[call.args.code]
        IN /\ count <= 1 => call.result = "silent"
           /\ count = 2 => call.result = "label"
           /\ count = 3 => call.result = "confirm"
           /\ count >= 4 => call.result = "active"
  /\ (call.fn = "reset" /\ call.done) => \A c \in Codes : counts[c] = 0

\* A tracker that counted 3 detections of a code reports confirm for it while
\* the other code, counted 5 times, would be active.
C13_Witness ==
  /\ call.fn = "getEscalationLevel" /\ call.done
  /\ counts[call.args.code] = 3 /\ call.result = "confirm"
  /\ \E c \in Codes : counts[c] = 5

\* Detections of code c in a detection list.
DetectionsOf(dets, c) == Cardinality({k \in 1..Len(dets) : dets[k].code = c})

\* The cycle whose pattern detection settles in this step, 0 if none does.
Settling ==
  IF \E i \in 1..Len(cycles) : cycles[i].pc = "detecting" /\ cycles'[i].pc = "done"
  THEN CHOOSE i \in 1..Len(cycles) : cycles[i].pc = "detecting" /\ cycles'[i].pc = "done"
  ELSE 0

\* C14: escalation is monotonic, without decay. A step either is start()'s
\* reset, which puts every count to 0 whatever the store holds, or leaves
\* every count and every level at least where it was; a count moves only when
\* a cycle's detections are tracked, by one per detection of its code, and no
\* other step (a store write, a lesson upsert, a new cycle) touches it.
C14_MonotonicCounts ==
  [][ IF started' # started
      THEN counts' = NoCounts
      ELSE /\ \A c \in Codes :
                /\ counts'[c] >= counts[c]
                /\ EscalationOrder(EscalationLevel(counts'[c]))
                     >= EscalationOrder(EscalationLevel(counts[c]))
           /\ Settling = 0 => counts' = counts
           /\ Settling # 0 =>
                \A c \in Codes :
                  /\ counts'[c] <= counts[c] + DetectionsOf(cycles'[Settling].dets, c)
                  /\ cycles'[Settling].failed = "none" =>
                       counts'[c] = counts[c] + DetectionsOf(cycles'[Settling].dets, c)
    ]_vars

\* start() came after two tracked detections of UI-TRIAL and one more was
\* tracked since: three rows are stored, the count is 1.
C14_Witness ==
  /\ started
  /\ counts["UI-TRIAL"] = 1
  /\ occurrences[PatternRow(Detection("UI-TRIAL"))] = 3

\* Store calls of the completion block that an outside cause (disk, lock)
\* made throw.
OutsideFailures == {"addPatternOccurrence", "addLesson", "addObservation"}

\* C15 (as stated): for each detection accepted in a cycle exactly one
\* PatternOccurrence row (session, workspace, code, category, confidence,
\* evidence) is persisted, at every escalation level, silent included. Stated
\* for the cycles in which no store call failed for an outside cause.
C15_OneRowPerDetection ==
  [][ (Settling # 0 /\ cycles'[Settling].failed \notin OutsideFailures) =>
        \A r \in PatternRows :
          occurrences'[r] = occurrences[r]
            + Cardinality({k \in 1..Len(cycles'[Settling].dets) :
                             PatternRow(cycles'[Settling].dets[k]) = r})
    ]_vars

\* The elements of a response that name a catalog code with its catalog
\* category and carry a numeric confidence and an evidence.
WellFormed(items) ==
  {k \in 1..Len(items) :
     /\ items[k].json = "object"
     /\ items[k].code \in CatalogCodes
     /\ items[k].category = CatalogCategory(items[k].code)
     /\ items[k].confidence.isNumber /\ items[k].evidence # ""}

\* C16 (as stated): every detection the parser returns has a code among the
\* twelve catalog codes, the catalog's category for that code and a confidence
\* within [0, 1]; an element with an unknown code or a mismatched category is
\* dropped without affecting the others: as long as the response holds no
\* null element, each well-formed element comes back.
C16_OnlyCatalogDetections ==
  (call.fn = "parseDetectionResponse" /\ call.done) =>
     /\ \A k \in 1..Len(call.result) :
          /\ call.result[k].code \in CatalogCodes
          /\ call.result[k].category = CatalogCategory(call.result[k].code)
          /\ call.result[k].confidence \in 0..10
     /\ (call.args.form \in {"array", "fencedArray"}
           /\ \A k \in 1..Len(call.args.items) : call.args.items[k].json = "object")
        => Len(call.result) >= Cardinality(WellFormed(call.args.items))

\* Tracked detections of a cycle that left the count of a code at 3 or more,
\* given the count before and after the cycle.
FromThird(before, after) ==
  LET floor == IF before > 2 THEN before ELSE 2
  IN IF after > floor THEN after - floor ELSE 0

\* The lessons row of a sentence after m upserts with initial confidence 0.1
\* (in tenths) under a category.
AfterUpserts(row, m, category) ==
  IF m = 0 THEN row
  ELSE IF row = NoLesson THEN [category |-> category, confidence |-> 1 + (m - 1)]
  ELSE [row EXCEPT !.confidence = IF @ + m > 10 THEN 10 ELSE @ + m]

\* C17 (as stated): a detection that brings the count of its code to 1 or 2
\* writes no Lesson; each detection that leaves the count at 3 or more performs
\* exactly one upsert of the code's fixed lesson sentence under the category
\* of the fixed table (UI-TRIAL: habit, BLIND-RETRY: workflow_inefficiency).
\* Stated for the cycles in which no store call failed for an outside cause.
C17_LessonFromThirdOccurrence ==
  [][ (Settling # 0 /\ cycles'[Settling].failed \notin OutsideFailures) =>
        /\ lessons'["Developer tends to adjust visual elements through trial-and-error instead of calculating requirements upfront"]
             = AfterUpserts(
                 lessons["Developer tends to adjust visual elements through trial-and-error instead of calculating requirements upfront"],
                 FromThird(counts["UI-TRIAL"], counts'["UI-TRIAL"]),
                 "habit")
        /\ lessons'["Developer retries commands without investigating root causes"]
             = AfterUpserts(
                 lessons["Developer retries commands without investigating root causes"],
                 FromThird(counts["BLIND-RETRY"], counts'["BLIND-RETRY"]),
                 "workflow_inefficiency")
        /\ lessons'[ExtractedLesson.content] = lessons[ExtractedLesson.content]
    ]_vars

\* C18: the text persisted as the Observation and the text handed to the
\* notification are the same, the formatter's output: the raw text alone when
\* the cycle detected no pattern, otherwise one prefix line per detection, in
\* order, above further lines that end with the raw text. A notification is
\* emitted only by a cycle none of whose store writes threw, after the rows of
\* its detections and its Observation were written.
C18_NotifiedIsPersisted ==
  /\ Len(notified) = Len(observations)
  /\ \A k \in 1..Len(notified) :
       LET i == notified[k].cycle
           text == notified[k].text
           dets == cycles[i].dets
       IN /\ observations[k] = [cycle |-> i, text |-> text]
          /\ cycles[i].pc = "done" /\ cycles[i].failed = "none" /\ cycles[i].wrote
          /\ \A r \in PatternRows :
               occurrences[r] >= Cardinality({j \in 1..Len(dets) : PatternRow(dets[j]) = r})
          /\ Len(text) >= Len(dets) + 1
          /\ text[Len(text)] = TextLine("text", cycles[i].text)
          /\ dets = <<>> <=> Len(text) = 1
          /\ \A j \in 1..Len(dets) :
               text[j].line = "prefix" /\ text[j].code = dets[j].code

\* A cycle that detected UI-TRIAL twice has notified the text it persisted:
\* two prefix lines above the raw text.
C18_Witness ==
  \E k \in 1..Len(notified) :
    /\ Len(cycles[notified[k].cycle].dets) = 2
    /\ observations[k].text = notified[k].text
    /\ notified[k].text[2].line = "prefix"
    /\ notified[k].text[2].shown = 2

\* The prefix line the claim expects for a label: icon and code, then
\* "(xN)" from the label level on, after the word "confirmed" or "active" at
\* those levels.
ExpectedPrefix(p) ==
  [line |-> "prefix", icon |-> p.icon, code |-> p.code,
   word |-> IF p.escalationLevel = "confirm" THEN "confirmed"
            ELSE IF p.escalationLevel = "active" THEN "active" ELSE "",
   shown |-> IF p.escalationLevel = "silent" THEN 0 ELSE p.frequency,
   text |-> ""]

\* C19: the displayed text follows the highest escalation level among the
\* labels: one prefix line per label, then a definition line for each
\* confirm-level label only when the highest level is confirm, or a
\* suggestion line for each active-level label only when the highest level is
\* active, then the original text; with no label, the original text alone.
C19_FormatByHighestLevel ==
  (call.fn = "format" /\ call.done) =>
     LET labels == call.args.labels
         out == call.result
         n == Len(labels)
         top == IF \E k \in 1..n : labels[k].escalationLevel = "active" THEN "active"
                ELSE IF \E k \in 1..n : labels[k].escalationLevel = "confirm" THEN "confirm"
                ELSE "other"
         S == {k \in 1..n : labels[k].escalationLevel = top}
     IN /\ Len(out) = n + Cardinality(S) + 1
        /\ out[Len(out)] = [line |-> "text", icon |-> "", code |-> "", word |-> "",
                             shown |-> 0, text |-> call.args.text]
        /\ \A k \in 1..n : out[k] = ExpectedPrefix(labels[k])
        /\ \A k \in S :
             out[n + Cardinality({j \in S : j <= k})] =
               [line |-> IF top = "confirm" THEN "pattern" ELSE "consider",
                icon |-> "", code |-> "", word |-> "", shown |-> 0,
                text |-> IF top = "confirm"
                         THEN (IF labels[k].code = "UI-TRIAL"
                               THEN "Iterative visual adjustment without measuring constraints first"
                               ELSE "Retrying commands without investigating root cause")
                         ELSE labels[k].suggestion]

\* A confirm-level UI-TRIAL label after an active-level BLIND-RETRY label:
\* two prefix lines, the suggestion of BLIND-RETRY alone, the text.
C19_Witness ==
  /\ call.fn = "format" /\ call.done
  /\ Len(call.args.labels) = 2
  /\ call.args.labels[1].escalationLevel = "active"
  /\ call.args.labels[2].escalationLevel = "confirm"
  /\ Len(call.result) = 4
  /\ call.result[3].line = "consider"

\* C20: after n >= 1 upserts of one content with initial confidence c0 the
\* lessons table holds exactly one row for it, with confidence
\* min(1.0, c0 + 0.1 * (n - 1)); a content never upserted has no row, so two
\* distinct contents give two rows.
C20_UpsertAccumulates ==
  call.fn = "addLesson" =>
    /\ \A l \in LessonContents :
         LET n == call.args.upserts[l]
             c0 == call.args.initialConfidence
         IN IF n = 0 THEN lessons[l] = NoLesson
            ELSE /\ lessons[l] # NoLesson
                 /\ lessons[l].confidence = IF c0 + (n - 1) > 10 THEN 10 ELSE c0 + (n - 1)
    /\ Cardinality({l \in LessonContents : lessons[l] # NoLesson})
         = Cardinality({l \in LessonContents : call.args.upserts[l] >= 1})

\* One content upserted three times from 0.9 stands at the cap 1.0, another
\* upserted once stands at 0.9, the third has no row.
C20_Witness ==
  /\ call.fn = "addLesson" /\ call.args.initialConfidence = 9
  /\ \E l1, l2, l3 \in LessonContents :
       /\ call.args.upserts[l1] = 3 /\ lessons[l1].confidence = 10
       /\ call.args.upserts[l2] = 1 /\ lessons[l2].confidence = 9
       /\ call.args.upserts[l3] = 0 /\ lessons[l3] = NoLesson

\* C21 (as stated): an upsert on a content that is already stored raises the
\* lesson's confidence by exactly the confidence passed in that call, capped
\* at 1.0, whoever the caller is (0.1 from the pattern loop, the parsed
\* confidence from the Lesson Extractor).
C21_UpsertAddsPassedDelta ==
  [][ \A l \in LessonContents :
        (call.fn = "addLesson" /\ call'.args.upserts[l] # call.args.upserts[l]
           /\ lessons[l] # NoLesson)
        => lessons'[l].confidence =
             IF lessons[l].confidence + call.args.initialConfidence > 10 THEN 10
             ELSE lessons[l].confidence + call.args.initialConfidence
    ]_vars

\* The horizon the last cleanup pass applied to a table, from the clock
\* readings it took: d days for events and observations, 2d days for pattern
\* occurrences.
Horizon(t) ==
  IF t = "pattern_occurrences" THEN db.cleanup.t2 - (2 * RetentionDays * DayMs)
  ELSE db.cleanup.t1 - (RetentionDays * DayMs)

\* The constructor has just returned and every DELETE of its cleanup pass ran.
CleanupPassed ==
  /\ db.phase = "open" /\ db.last.op = "constructor"
  /\ db.cleanup.fail \in {"none", "checkpoint"}

\* C22: immediately after a cleanup pass with horizon d days no event or
\* observation older than now - d days and no pattern occurrence older than
\* now - 2d days remains, every row inside its horizon is still present, and
\* the lessons table is unchanged.
C22_Retention ==
  CleanupPassed =>
    /\ \A t \in {"events", "observations", "pattern_occurrences"} :
          /\ \A r \in Range(db.tables[t].rows) : ~(r.timestamp < Horizon(t))
          /\ \A r \in Range(db.atCleanup[t].rows) :
                r.timestamp >= Horizon(t) => r \in Range(db.tables[t].rows)
    /\ db.tables["lessons"] = db.atCleanup["lessons"]

\* A pass that deleted an event older than five days, kept a pattern
\* occurrence older than five but not ten days, and found a lesson.
C22_Witness ==
  /\ CleanupPassed
  /\ \E r \in Range(db.atCleanup["events"].rows) :
        r.timestamp < Horizon("events") /\ r \notin Range(db.tables["events"].rows)
  /\ \E r \in Range(db.tables["pattern_occurrences"].rows) :
        r.timestamp < Horizon("events")
  /\ db.tables["lessons"].rows # <<>>

\* memory.db held t without workspace_id when the constructor opened it.
LegacyAtOpen(t) == db.file[t] # NoTable /\ "workspace_id" \notin db.file[t].columns

\* The constructor has run migrateTable on t: init() migrates events first and
\* never reaches observations when that throws.
Legacy(t) ==
  /\ LegacyAtOpen(t)
  /\ db.last.op = "constructor"
  /\ t = "observations" =>
       ~(db.phase = "failed" /\ LegacyAtOpen("events")
           /\ db.tables["events"] = db.file["events"])

\* Table t as init() left it, before the cleanup pass of the constructor.
AfterInit(t) == IF db.phase = "open" THEN db.atCleanup[t] ELSE db.tables[t]

\* The rebuild of t committed: new schema, every old row with its old values
\* and '' in workspace_id, no <t>_old table.
Rebuilt(t) ==
  /\ AfterInit(t).columns = CurrentColumns
  /\ Len(AfterInit(t).rows) = Len(db.file[t].rows)
  /\ \A k \in 1..Len(db.file[t].rows) :
        /\ AfterInit(t).rows[k].workspace_id = ""
        /\ \A c \in LegacyColumns : AfterInit(t).rows[k][c] = db.file[t].rows[k][c]
  /\ db.old[t] = NoTable

\* C25: migration is all-or-nothing per table: either the rebuild commits, or
\* the table is left exactly in its pre-migration schema and contents (and no
\* <t>_old table) and the construction of the store fails with an error.
C25_MigrationAllOrNothing ==
  \A t \in {"events", "observations"} :
    (db.phase \in {"open", "failed"} /\ Legacy(t)) =>
       \/ Rebuilt(t) /\ (db.phase = "failed" => t = "events")
       \/ /\ db.tables[t] = db.file[t] /\ db.old[t] = NoTable
          /\ db.phase = "failed" /\ db.last.thrown # "none"

\* Both outcomes at once: the events table was rebuilt with its row, then the
\* rebuild of observations failed after its rows had been copied.
C25_Witness ==
  /\ db.phase = "failed"
  /\ Legacy("events") /\ Rebuilt("events") /\ db.file["events"].rows # <<>>
  /\ Legacy("observations") /\ db.file["observations"].rows # <<>>
  /\ db.tables["observations"] = db.file["observations"]
  /\ db.last.thrown \in {"dropIndexes", "createIndexes", "dropOld", "commit"}

\* C23: getPastObservations never returns an observation of another workspace
\* or of the current session; its result is in descending timestamp order and
\* holds the limit most recent matching rows (all of them when fewer match);
\* so the past-sessions part of the prompt holds no observation of another
\* workspace.
C23_WorkspaceIsolation ==
  (call.fn = "getPastObservations" /\ call.done) =>
    LET rows == call.args.rows
        past == call.result.past
        matching == {k \in 1..Len(rows) :
                       rows[k].workspace_id = Workspace /\ rows[k].session_id # CurSession}
    IN /\ Range(past) \subseteq matching
       /\ \A a, b \in 1..Len(past) :
             a < b => past[a] # past[b] /\ rows[past[a]].timestamp >= rows[past[b]].timestamp
       /\ Len(past) = IF Cardinality(matching) < call.args.limit
                      THEN Cardinality(matching) ELSE call.args.limit
       /\ \A k \in matching \ Range(past) :
             \A a \in 1..Len(past) : rows[past[a]].timestamp >= rows[k].timestamp
       /\ \A k \in Range(call.result.prompt) : rows[k].workspace_id = Workspace

\* A table with a row of another workspace and more matching rows than the
\* limit, of which one is returned.
C23_Witness ==
  /\ call.fn = "getPastObservations" /\ call.done
  /\ \E k \in 1..Len(call.args.rows) : call.args.rows[k].workspace_id # Workspace
  /\ Len(call.result.past) = 1 /\ call.args.limit = 1
  /\ \E k \in 1..Len(call.args.rows) :
        /\ k \notin Range(call.result.past)
        /\ call.args.rows[k].workspace_id = Workspace
        /\ call.args.rows[k].session_id # CurSession

\* C24: getRecentEvents(T) returns exactly the events of the current session
\* with timestamp > T, each once, in non-decreasing timestamp order, and never
\* an event of another session, whatever order the events were appended in.
C24_RecentEventsExact ==
  (call.fn = "getRecentEvents" /\ call.done) =>
    LET r == call.result
    IN /\ Range(r) = {i \in 1..Len(events) :
                        events[i].session = CurSession /\ events[i].ts > call.args.sinceMs}
       /\ \A a, b \in 1..Len(r) :
             a < b => r[a] # r[b] /\ events[r[a]].ts <= events[r[b]].ts

\* Two events appended latest first, both returned, while the earlier
\* session's later event is left out.
C24_Witness ==
  /\ call.fn = "getRecentEvents" /\ call.done
  /\ Len(call.result) = 2
  /\ call.result[1] > call.result[2]
  /\ events[call.result[1]].ts < events[call.result[2]].ts
  /\ \E i \in 1..Len(events) :
        events[i].session # CurSession /\ events[i].ts > call.args.sinceMs

\* Rows the four write operations have written since the store was opened.
StoreWrites ==
  db.written["events"] + db.written["observations"] + db.written["lessons"]
    + db.written["pattern_occurrences"]

WriteOps == {"addEvent", "addObservation", "addLesson", "addPatternOccurrence"}

\* C26 (as stated): a write issues a passive checkpoint exactly when the running
\* count of store writes, with addEvent, addObservation, addLesson and
\* addPatternOccurrence all counted, reaches a multiple of 50; on close a full
\* checkpoint is issued, by close() or by SQLite when the connection closes.
C26_CheckpointEveryFiftyWrites ==
  /\ (db.last.op \in WriteOps /\ db.last.wrote) =>
       (db.last.checkpoint = "PASSIVE" <=> StoreWrites % CHECKPOINT_INTERVAL = 0)
  /\ db.last.op = "close" => db.last.checkpoint \in {"FULL", "PASSIVE+FULL"}

\* C26, the part on writes alone.
C26_WritesOnly ==
  (db.last.op \in WriteOps /\ db.last.wrote) =>
     (db.last.checkpoint = "PASSIVE" <=> StoreWrites % CHECKPOINT_INTERVAL = 0)

\* C27 (as stated): a failing checkpoint, periodic or at close, and a failing
\* cleanup pass never propagate out of the operation that triggered them: the
\* append or upsert, the constructor or close completes, and the row the
\* operation wrote stays written.
C27_MaintenanceFailuresNonFatal ==
  /\ (db.last.op \in WriteOps /\ ~db.last.checkpointOk) =>
       db.last.thrown = "none" /\ db.last.wrote
  /\ (db.last.op = "close" /\ ~db.last.checkpointOk) =>
       db.last.thrown = "none" /\ db.phase = "closed"
  /\ (db.last.op = "constructor" /\ db.cleanup.fail # "none") =>
       db.last.thrown = "none" /\ db.phase = "open"

\* C27, the part on the periodic checkpoint alone.
C27_PeriodicOnly ==
  (db.last.op \in WriteOps /\ ~db.last.checkpointOk) =>
     db.last.thrown = "none" /\ db.last.wrote

\* C27, the part on the constructor's cleanup pass alone.
C27_CleanupOnly ==
  (db.last.op = "constructor" /\ db.cleanup.fail # "none") =>
     db.last.thrown = "none" /\ db.phase = "open"

\* stop() was the last of the start() and stop() calls made so far.
Stopped == started /\ ~analysisInterval

\* C28 (as stated): once stop() has returned no further analysis cycle begins,
\* whatever start() and stop() calls came before: stop() during the warm-up
\* delay and start() called more than once included.
C28_NoCycleAfterStop ==
  [][Stopped => Len(cycles') = Len(cycles)]_vars

\* C28 for an agent started once whose warm-up timer has fired before stop().
C28_AfterWarmupStartedOnce ==
  [][(Stopped /\ pendingWarmups = 0 /\ liveIntervals = 0)
        => Len(cycles') = Len(cycles)]_vars

\* C29: within a cycle no store write (pattern occurrence, lesson,
\* observation) happens before both the analysis call and the detection call
\* have resolved: a step changes the store only when a cycle's detection
\* settles or when the lesson extraction such a cycle launched settles, and
\* no observation of a cycle exists while the cycle is at one of its awaits.
C29_NoWriteBeforeResolve ==
  [][ /\ (observations' # observations \/ occurrences' # occurrences
            \/ lessons' # lessons)
          => (Settling # 0 \/ lessonJobs' < lessonJobs)
      /\ \A i \in 1..Len(cycles') :
            cycles'[i].pc \in {"analyzing", "detecting"} =>
              \A k \in 1..Len(observations') : observations'[k].cycle # i
    ]_vars

\* A cycle with a batch waits for its detection call after an earlier cycle
\* has written its observation, and has written nothing itself.
C29_Witness ==
  /\ Len(cycles) = 2
  /\ cycles[1].wrote
  /\ cycles[2].pc = "detecting" /\ cycles[2].batch # <<>>
  /\ \A k \in 1..Len(observations) : observations[k].cycle = 1

\* C30: a failure anywhere in lesson extraction never invokes the error sink,
\* never makes analyze() fail and never prevents the observation notification
\* of its cycle: the step that settles an extraction leaves every cycle and
\* the notifications as they are, and the step that launches one emits the
\* notification of its cycle.
C30_ExtractionFailuresSilent ==
  [][ /\ lessonJobs' < lessonJobs => (cycles' = cycles /\ notified' = notified)
      /\ lessonJobs' > lessonJobs =>
           /\ Len(notified') = Len(notified) + 1
           /\ notified'[Len(notified')].cycle = Settling
           /\ cycles'[Settling].failed = "none" /\ cycles'[Settling].errs = 0
    ]_vars

\* An extraction has settled without storing its lesson, after its cycle
\* notified its observation without an error.
C30_Witness ==
  /\ lessonJobs = 0
  /\ lessons[ExtractedLesson.content] = NoLesson
  /\ \E i \in 1..Len(cycles) :
        /\ cycles[i].wrote /\ cycles[i].text = "long" /\ cycles[i].errs = 0
        /\ \E k \in 1..Len(notified) : notified[k].cycle = i

\* The reply states a lesson sentence together with a category of the fixed set.
StatesLessonAndCategory(reply) ==
  /\ \E i \in 1..Len(reply) : reply[i].label = "Lesson" /\ reply[i].value # ""
  /\ \E i \in 1..Len(reply) :
       reply[i].label = "Category" /\ reply[i].value \in ValidCategories

\* C31: extractAndStore inserts or increments a lesson row only for a reply
\* that states a lesson sentence together with a category from the fixed set;
\* for "NONE", an empty reply, a reply without a lesson sentence or without a
\* category, or with a category outside the set, the lessons table is unchanged.
C31_StoredOnlyForLessonAndCategory ==
  [][ call.fn = "extractAndStore" /\ lessons' # lessons
        => StatesLessonAndCategory(call.args.reply) ]_vars

\* The part of C31 that the code keeps: "NONE", an empty reply, a reply with no
\* Lesson label and a reply naming a category outside the set store nothing.
C31_DiscardedReplies ==
  [][ /\ call.fn = "extractAndStore"
      /\ \/ call.args.reply \in {<<>>, <<NoneLine>>}
         \/ \A i \in 1..Len(call.args.reply) : call.args.reply[i].label # "Lesson"
         \/ \E i \in 1..Len(call.args.reply) :
              /\ call.args.reply[i].label = "Category"
              /\ call.args.reply[i].value \notin ValidCategories \cup {""}
      => lessons' = lessons ]_vars

\* Replies of the detection provider that are blank, not JSON or not an array.
UnusableResponses ==
  {r \in Responses : r.form \in {"blank", "notJson", "notArray"}}

\* The cycle has come back from detectPatterns with no detection.
DetectedNothing(c) ==
  c.pc = "done" /\ c.text \in {"short", "long"} /\ c.dets = <<>>

\* C32: pattern detection is guarded and never errors. A text under 20
\* characters triggers no detection call and yields no pattern; a rejected
\* detection call and a reply that is unparseable or not an array yield the
\* empty list; the cycle then persists and emits the unannotated observation
\* and the error sink is not invoked (unless the observation write itself throws).
C32_DetectionGuarded ==
  /\ \A r \in UnusableResponses : ParseDetectionResponse(r) = <<>>
  /\ \A i \in 1..Len(cycles) :
       LET c == cycles[i]
       IN /\ c.text = "short" => c.detectCalls = 0 /\ c.dets = <<>>
          /\ c.detectFailed => c.detectCalls = 1 /\ c.dets = <<>>
          /\ DetectedNothing(c) /\ c.failed # "addObservation" =>
               /\ c.wrote /\ c.errs = 0 /\ c.failed = "none"
               /\ \E k \in 1..Len(observations) :
                    observations[k] = [cycle |-> i, text |-> Format(c.text, <<>>)]
               /\ \E k \in 1..Len(notified) :
                    /\ notified[k].cycle = i
                    /\ notified[k].text = Format(c.text, <<>>)

\* One cycle got a short text, another had its detection call rejected; both
\* wrote and emitted their observation and neither reached the error sink.
C32_Witness ==
  \E i, j \in 1..Len(cycles) :
    /\ cycles[i].text = "short" /\ cycles[i].wrote /\ cycles[i].errs = 0
    /\ cycles[j].detectFailed /\ cycles[j].wrote /\ cycles[j].errs = 0
    /\ \E k \in 1..Len(notified) : notified[k].cycle = j

\* The step handles a file that has not been seen, on a watch notification.
Handles(fn) ==
  wphase = "watching" /\ watcher' # watcher /\ call'.fn = fn

\* The file at startup is inside the snapshot window.
RecentAtStart(f) == f.mtime # Absent /\ IsRecent(f.mtime, RecentCutoff(StartupNow))

\* What the handlers do with an unreadable or malformed file, and with the
\* files that come after it, the envelope buffer left aside.
MalformedSkipped ==
  /\ (Handles("handleMessage") \/ Handles("handlePart")) /\ ~call'.args.content.ok
       => /\ watcher'.emitCount = watcher.emitCount
          /\ watcher'.lastEmitted = watcher.lastEmitted
          /\ wphase' = "watching"
  /\ Handles("handlePart") /\ call'.args.content.ok
       /\ call'.args.content.type = "text" /\ ~call'.args.content.text.blank
       => watcher'.emitCount[call'.args.file] = watcher.emitCount[call'.args.file] + 1
  /\ Handles("handleMessage") /\ call'.args.content.ok
       => MapHas(watcher'.messageBuffer, OrNum(call'.args.content.id, call'.args.file))
  /\ wphase = "idle" /\ wphase' = "watching"
       => /\ \A p \in PartFiles :
               watcher'.emitCount[p] =
                 IF RecentAtStart(startupDir.parts[p]) /\ startupDir.parts[p].content.ok
                 THEN 1 ELSE 0
          /\ \A m \in MessageFiles :
               MapHas(watcher'.messageBuffer, m)
                 <=> RecentAtStart(startupDir.messages[m])
                       /\ startupDir.messages[m].content.ok

Notifies(fn) == wphase = "watching" /\ call' # call /\ call'.fn = fn

\* C38: a backing file is read at most once per process. Its path is marked
\* seen on its first notification whatever the file holds, and a notification
\* for a path that is in the seen set reads nothing and changes nothing: a
\* file that was partial or malformed at first produces no Event later, even
\* once it is well-formed, as long as its seen entry has not been evicted.
C38_ReadAtMostOnce ==
  [][ /\ Notifies("handlePart") =>
           /\ call'.args.file \in Range(watcher'.seenParts)
           /\ AlreadySeen(watcher.seenParts, call'.args.file) => watcher' = watcher
      /\ Notifies("handleMessage") =>
           /\ call'.args.file \in Range(watcher'.seenMessages)
           /\ call'.args.file \in Range(watcher.seenMessages) => watcher' = watcher
    ]_vars

\* A content file that was malformed when first notified has been notified
\* again, well-formed, while still in the seen set, and has produced no Event.
C38_Witness ==
  /\ call.fn = "handlePart" /\ call.args.content.ok
  /\ ~call.args.content.text.blank /\ call.args.content.type = "text"
  /\ call.args.file \in Range(watcher.seenParts)
  /\ watcher.emitCount[call.args.file] = 0
  /\ TotalEmitted(watcher.emitCount) < MaxEmitted

\* The cycles of the observations in the order of s (the store or the
\* notifications) follow the order of their batches.
InBatchOrder(s) ==
  \A k1, k2 \in 1..Len(s) :
    k1 < k2 =>
      ~(MaxTimestamp(cycles[s[k2].cycle].batch) < MinTimestamp(cycles[s[k1].cycle].batch))

\* C34: overlapping cycles produce neither duplicate nor out-of-order
\* observations: a cycle persists and emits at most one observation, and the
\* observation of the cycle with the earlier events is persisted and emitted
\* before that of the cycle with the later events.
C34_OrderedObservations ==
  /\ \A i \in 1..Len(cycles) :
       /\ Cardinality({k \in 1..Len(observations) : observations[k].cycle = i}) <= 1
       /\ Cardinality({k \in 1..Len(notified) : notified[k].cycle = i}) <= 1
  /\ InBatchOrder(observations)
  /\ InBatchOrder(notified)

\* The part of C34 that the code keeps: one observation per cycle at most.
C34_AtMostOnePerCycle ==
  \A i \in 1..Len(cycles) :
    /\ Cardinality({k \in 1..Len(observations) : observations[k].cycle = i}) <= 1
    /\ Cardinality({k \in 1..Len(notified) : notified[k].cycle = i}) <= 1

\* The cycle selected events and then failed at some step.
FailedWithBatch(c) == c.batch # <<>> /\ c.failed # "none"

\* C36: the cursor is committed before the provider is called. A cycle that
\* waits for its analysis call, and a cycle whose analysis call or any later
\* step failed, has already advanced the cursor to the maximum timestamp of
\* its batch, the cursor stays at or above it, and no other cycle selects an
\* event of the failed batch.
C36_CursorCommittedFirst ==
  \A i \in 1..Len(cycles) :
    /\ cycles[i].batch # <<>> => lastAnalysisTime >= MaxTimestamp(cycles[i].batch)
    /\ FailedWithBatch(cycles[i]) =>
         \A j \in 1..Len(cycles) :
           j # i => Range(cycles[j].batch) \cap Range(cycles[i].batch) = {}

\* A cycle failed at its analysis call, and a later cycle has selected newer
\* events while the events of the failed batch stay unselected.
C36_Witness ==
  \E i, j \in 1..Len(cycles) :
    /\ i < j
    /\ cycles[i].batch # <<>> /\ cycles[i].failed = "analyzeWithDepth"
    /\ cycles[j].batch # <<>>
    /\ lastAnalysisTime = MaxTimestamp(cycles[j].batch)

\* PatternOccurrence rows persisted for a code in the current session.
RowsOf(code) ==
  LET rows == {r \in DOMAIN occurrences : r.pattern_code = code /\ r.session_id = CurSession}
      RECURSIVE Sum(_)
      Sum(S) == IF S = {} THEN 0
                ELSE LET r == CHOOSE x \in S : TRUE IN occurrences[r] + Sum(S \ {r})
  IN Sum(rows)

\* C37: at the end of every cycle, completed or failed part-way, the session
\* count the tracker holds for a pattern code equals the number of
\* PatternOccurrence rows persisted for that code in the current session
\* since the last reset (here: before any start() has reset the tracker).
C37_CountsMatchRows ==
  ~started => \A code \in Codes : counts[code] = RowsOf(code)

\* The part of C37 that the code keeps: count and rows agree as long as no
\* addPatternOccurrence call has thrown.
C37_WhenWritesSucceed ==
  (~started /\ \A i \in 1..Len(cycles) :
                cycles[i].failed \notin {"addPatternOccurrence", "foreignKey"})
    => \A code \in Codes : counts[code] = RowsOf(code)

\* The step starts a cycle whose selection of events did not throw.
CycleSelects ==
  /\ Len(cycles') = Len(cycles) + 1
  /\ cycles'[Len(cycles')].failed # "getRecentEvents"

\* Row k is in the batch of some cycle after the step.
Analysed(k) == \E i \in 1..Len(cycles') : k \in Range(cycles'[i].batch)

\* C35: no event is left unanalysed. Every event stored for the current
\* session is in the batch of some cycle once a cycle has fired after it was
\* stored, an event stamped cursor+1 and an event stamped at or below the
\* cursor included.
C35_NoEventLeftUnanalysed ==
  [][ CycleSelects => \A k \in SessionRows : Analysed(k) ]_vars

\* The part of C35 that the code keeps: a cycle takes every stored event of
\* the session stamped later than cursor+1 (later than 0 on the first batch).
C35_LaterEventsAnalysed ==
  [][ CycleSelects =>
        \A k \in SessionRows :
          events[k].ts > AnalysisThreshold(lastAnalysisTime) => Analysed(k) ]_vars

\* The step is a poll that read the history file.
Polled == hook.pc = "polling" /\ hook'.polls = hook.polls + 1 /\ hook'.errors = hook.errors

\* C39: every non-blank line appended to the history file after start()
\* yields exactly one terminal Event, in file order, on the next poll, also
\* when the file ends with a newline; lines present before start() yield none.
C39_EveryAppendedLineEmitted ==
  [][ /\ Polled => hook'.emitted = hook.emitted \o hook.pending
      /\ hook.pc # "none" =>
           \A k \in 1..Len(hook'.emitted) : hook'.emitted[k] > hook'.atStart
    ]_vars

\* The part of C39 that the code keeps: as long as no read has found the file
\* ending with a line break, a poll emits the lines appended since the last
\* read, once and in order; and no line written before start() is ever emitted.
C39_WithoutFinalNewline ==
  [][ /\ Polled /\ ~hook'.newlineRead => hook'.emitted = hook.emitted \o hook.pending
      /\ hook.pc # "none" =>
           \A k \in 1..Len(hook'.emitted) : hook'.emitted[k] > hook'.atStart
    ]_vars

\* Capture notifications emitted on the bus so far.
BusEvents == IF wiring.pc = "none" THEN <<>> ELSE wiring.bus

\* C40: no capture event notification is emitted on the bus before the UI has
\* been mounted and the deferred start has run, so that no emitted capture
\* event is lost for lack of an attached listener.
C40_NoEventBeforeMount ==
  \A k \in 1..Len(BusEvents) : BusEvents[k].heard /\ BusEvents[k].started

\* The part of C40 that the code keeps: the notifications of the terminal
\* hook, of the opencode watcher and of the git interval come after the
\* deferred start and find the listener; the only early one is the unstaged
\* diff of the initial captureGitDiff().
C40_OnlyInitialDiffEarly ==
  \A k \in 1..Len(BusEvents) :
    /\ BusEvents[k].started => BusEvents[k].heard
    /\ ~BusEvents[k].started => k = 1 /\ BusEvents[k].type = "git_unstaged"
====
